---- MODULE Spec2Model ----
(***************************************************************************)
(* mongoose-references-integrity-checker: the reference registry built by  *)
(* plugin(), the selector / update builders, and the deletion policy       *)
(* engine (onDelete and its three policies) driven by the deleteOne /      *)
(* remove hooks and by the preSoftDelete hook.                             *)
(*                                                                         *)
(* A dotted path 'a.b.c' is the sequence <<"a","b","c">>; an update path   *)
(* 'a.$[j].b' is the sequence <<"a","$[j]","b">>.  Document ids are the    *)
(* positive integers, NULL (0) is the null value of a reference field.     *)
(***************************************************************************)
EXTENDS Integers, Sequences, FiniteSets, TLC

VARIABLES app, calls, refs, flags, store, gone, tasks, store0, prev, built

vars == <<app, calls, refs, flags, store, gone, tasks, store0, prev, built>>

NULL == 0

NONE == "undefined"

(***************************************************************************)
(* Document values: a scalar V(x), an object O(f) with fields f, an array  *)
(* A(s) of values.                                                         *)
(***************************************************************************)
V(x) == [t |-> "v", v |-> x]

O(f) == [t |-> "o", f |-> f]

A(s) == [t |-> "a", e |-> s]

RECURSIVE MatchesAll(_, _, _)
\* A selector that wants every element of an array to match.
MatchesAll(val, p, id) ==
    IF val.t = "a"
    THEN \A i \in 1..Len(val.e) : MatchesAll(val.e[i], p, id)
    ELSE IF p = <<>>
    THEN val.t = "v" /\ val.v = id
    ELSE /\ val.t = "o"
         /\ Head(p) \in DOMAIN val.f
         /\ MatchesAll(val.f[Head(p)], Tail(p), id)

RECURSIVE Matches(_, _, _)
\* The store's equality selector { 'p.q.r': id } evaluated on a value: an
\* array met on the way matches when any of its elements does.
Matches(val, p, id) ==
    IF val.t = "a"
    THEN \E i \in 1..Len(val.e) : Matches(val.e[i], p, id)
    ELSE IF p = <<>>
    THEN val.t = "v" /\ val.v = id
    ELSE /\ val.t = "o"
         /\ Head(p) \in DOMAIN val.f
         /\ Matches(val.f[Head(p)], Tail(p), id)

RECURSIVE SelectSeq2(_, _)
\* The elements of an array of scalars that differ from id, in order ($pull).
SelectSeq2(s, id) ==
    IF s = <<>> THEN <<>>
    ELSE IF s[1].t = "v" /\ s[1].v = id
    THEN SelectSeq2(Tail(s), id)
    ELSE <<s[1]>> \o SelectSeq2(Tail(s), id)

RECURSIVE ApplyUpdate(_, _, _)
\* The store's update { op: { toks: value } } with arrayFilters on a value.
\* u = [op, path, value, arrayFilters]; toks is what is left of u.path.
ApplyUpdate(val, toks, u) ==
    IF toks = <<>>
    THEN IF u.op = "$pull"
         THEN IF val.t = "a" THEN A(SelectSeq2(val.e, u.value)) ELSE val
         ELSE V(u.value)
    ELSE IF Head(toks) = "$[]"
    THEN IF val.t = "a"
         THEN A([i \in 1..Len(val.e) |-> ApplyUpdate(val.e[i], Tail(toks), u)])
         ELSE val
    ELSE IF Head(toks) = "$[j]"
    THEN IF val.t = "a"
         THEN A([i \in 1..Len(val.e) |->
                    IF \A k \in 1..Len(u.arrayFilters) :
                          Matches(val.e[i], Tail(u.arrayFilters[k].key),
                                  u.arrayFilters[k].value)
                    THEN ApplyUpdate(val.e[i], Tail(toks), u)
                    ELSE val.e[i]])
         ELSE val
    ELSE IF val.t = "o" /\ Head(toks) \in DOMAIN val.f
    THEN O([val.f EXCEPT ![Head(toks)] = ApplyUpdate(@, Tail(toks), u)])
    ELSE val

(***************************************************************************)
(* Schemas.  A schema is the sequence of its paths in eachPath order, each *)
(* [path, st]; st.ctor is the schema type's constructor name.              *)
(***************************************************************************)
ObjectId(ref, cascade) ==
    [ctor |-> "ObjectId", ref |-> ref, optCascade |-> cascade]

\* [{ type: ObjectId, ref }]: the array's own options carry no ref, and its
\* element options type[0] are a plain object (no options of its own).
SchemaArray(ref) ==
    [ctor |-> "SchemaArray", ref |-> NONE,
     type0 |-> [ref |-> ref, optCascade |-> FALSE]]

DocumentArrayPath(schema) ==
    [ctor |-> "DocumentArrayPath", ref |-> NONE, schema |-> schema]

SingleNestedPath(schema) ==
    [ctor |-> "SingleNestedPath", ref |-> NONE, schema |-> schema]

Undefined == [ctor |-> NONE, ref |-> NONE]

IsPrefix(p, q) == Len(p) <= Len(q) /\ SubSeq(q, 1, Len(p)) = p

RECURSIVE SchemaPath(_, _)
\* schema.path('a.b.c'): the schema type at a dotted path, looked up through
\* sub-schemas; Undefined for the prefix of a plain nested object.
SchemaPath(schema, p) ==
    IF \E i \in 1..Len(schema) : schema[i].path = p
    THEN schema[CHOOSE i \in 1..Len(schema) : schema[i].path = p].st
    ELSE IF \E i \in 1..Len(schema) :
               /\ IsPrefix(schema[i].path, p)
               /\ schema[i].st.ctor \in {"DocumentArrayPath", "SingleNestedPath"}
    THEN LET i == CHOOSE k \in 1..Len(schema) :
                     /\ IsPrefix(schema[k].path, p)
                     /\ schema[k].st.ctor \in {"DocumentArrayPath", "SingleNestedPath"}
         IN  SchemaPath(schema[i].st.schema,
                        SubSeq(p, Len(schema[i].path) + 1, Len(p)))
    ELSE Undefined

(***************************************************************************)
(* Selector and update builders.                                           *)
(***************************************************************************)
getFindQueryObjectFor(modelRef, pathRef, referencedId) ==
    [path |-> pathRef, value |-> referencedId]

\* info[i].array of the builder: whether the prefix path[1..i] is an array
\* of sub-documents of the model's schema.
IsDocumentArray(schema, path, i) ==
    SchemaPath(schema, SubSeq(path, 1, i)).ctor = "DocumentArrayPath"

\* The index of the first such prefix, 0 when there is none.
FirstDocumentArray(schema, path) ==
    LET arr == {i \in 1..(Len(path) - 1) : IsDocumentArray(schema, path, i)}
    IN  IF arr = {} THEN 0 ELSE CHOOSE i \in arr : \A k \in arr : i <= k

\* lastDocumentArray: the index of the last such prefix, 0 when there is none.
LastDocumentArray(schema, path) ==
    LET arr == {i \in 1..(Len(path) - 1) : IsDocumentArray(schema, path, i)}
    IN  IF arr = {} THEN 0 ELSE CHOOSE i \in arr : \A k \in arr : k <= i

RECURSIVE BuildUpdatePathAll(_, _, _)
\* An update path that addresses every element of every array on the way.
BuildUpdatePathAll(schema, path, i) ==
    IF i >= Len(path)
    THEN <<path[Len(path)]>>
    ELSE <<path[i]>>
         \o (IF IsDocumentArray(schema, path, i) THEN <<"$[]">> ELSE <<>>)
         \o BuildUpdatePathAll(schema, path, i + 1)

RECURSIVE BuildUpdatePath(_, _, _)
\* updatePath: path[i] followed by '$[j]' at the last array of sub-documents,
\* by '$[]' at an earlier one, for i below the last segment; then the last.
BuildUpdatePath(schema, path, i) ==
    IF i >= Len(path)
    THEN <<path[Len(path)]>>
    ELSE <<path[i]>>
         \o (IF IsDocumentArray(schema, path, i)
             THEN IF i = LastDocumentArray(schema, path)
                  THEN <<"$[j]">> ELSE <<"$[]">>
             ELSE <<>>)
         \o BuildUpdatePath(schema, path, i + 1)

\* An update that sets the field to null whatever the field is.
getUpdateQueryObjectForSet(schema, pathRef, referencedId) ==
    LET last     == LastDocumentArray(schema, pathRef)
        condPath == SubSeq(pathRef, last + 1, Len(pathRef))
    IN  [op    |-> "$set",
         path  |-> BuildUpdatePath(schema, pathRef, 1),
         value |-> NULL,
         arrayFilters |->
             IF last # 0
             THEN <<[key |-> <<"j">> \o condPath, value |-> referencedId]>>
             ELSE <<>>]

\* An update that writes the deleted id back instead of null.
getUpdateQueryObjectForKeep(schema, pathRef, referencedId) ==
    LET last     == LastDocumentArray(schema, pathRef)
        operator == IF SchemaPath(schema, pathRef).ctor = "SchemaArray"
                    THEN "$pull" ELSE "$set"
        condPath == SubSeq(pathRef, last + 1, Len(pathRef))
    IN  [op    |-> operator,
         path  |-> BuildUpdatePath(schema, pathRef, 1),
         value |-> referencedId,
         arrayFilters |->
             IF last # 0
             THEN <<[key |-> <<"j">> \o condPath, value |-> referencedId]>>
             ELSE <<>>]

getUpdateQueryObjectFor(schema, pathRef, referencedId) ==
    LET last     == LastDocumentArray(schema, pathRef)
        operator == IF SchemaPath(schema, pathRef).ctor = "SchemaArray"
                    THEN "$pull" ELSE "$set"
        condPath == SubSeq(pathRef, last + 1, Len(pathRef))
    IN  [op    |-> operator,
         path  |-> BuildUpdatePath(schema, pathRef, 1),
         value |-> IF operator = "$pull" THEN referencedId ELSE NULL,
         arrayFilters |->
             IF last # 0
             THEN <<[key |-> <<"j">> \o condPath, value |-> referencedId]>>
             ELSE <<>>]

(***************************************************************************)
(* plugin(): the walk of a schema that fills the registry refs.            *)
(***************************************************************************)
\* refs[key] = v
SetKey(r, key, v) == [x \in DOMAIN r \cup {key} |-> IF x = key THEN v ELSE r[x]]

\* refs[name] || [] with name possibly undefined
RefsOrEmpty(r, name) == IF name \in DOMAIN r THEN r[name] ELSE <<>>

\* A descriptor that records the last name of the path only.
DescriptorLastName(modelName, path, st) ==
    [modelName |-> modelName, path |-> <<path[Len(path)]>>,
     optCascade |-> st.optCascade]

Descriptor(modelName, path, st) ==
    [modelName |-> modelName, path |-> path,
     optCascade |-> st.optCascade]

RECURSIVE eachPath(_, _, _, _)
\* The registry after eachPath has visited the paths of `schema` in order,
\* each under the prefix `pre`.
eachPath(r, modelName, pre, schema) ==
    IF schema = <<>> THEN r
    ELSE LET path == pre \o schema[1].path
             st   == schema[1].st
             r1   ==
                 IF st.ctor = "SchemaArray" /\ st.type0.ref # NONE
                 THEN SetKey(r, st.type0.ref,
                             RefsOrEmpty(r, st.ref)
                             \o <<Descriptor(modelName, path, st.type0)>>)
                 ELSE IF st.ctor \in {"DocumentArrayPath", "SingleNestedPath"}
                 THEN eachPath(r, modelName, path, st.schema)
                 ELSE IF st.ref # NONE
                 THEN SetKey(r, st.ref,
                             RefsOrEmpty(r, st.ref)
                             \o <<Descriptor(modelName, path, st)>>)
                 ELSE r
         IN  eachPath(r1, modelName, pre, Tail(schema))

\* if (!refs[modelName]) refs[modelName] = [], then the walk of the schema
plugin(r, modelName, schema) ==
    eachPath(IF modelName \in DOMAIN r THEN r ELSE SetKey(r, modelName, <<>>),
             modelName, <<>>, schema)

RECURSIVE RegisterAll(_, _)
\* The registry after plugin() has run for each model of a list, in order.
RegisterAll(r, models) ==
    IF models = <<>> THEN r
    ELSE RegisterAll(plugin(r, models[1].name, models[1].schema), Tail(models))

(***************************************************************************)
(* The applications: the models each registers, in registration order, and *)
(* the documents its collections may hold.                                 *)
(***************************************************************************)
IdPath == [path |-> <<"_id">>, st |-> ObjectId(NONE, FALSE)]

Model(name, schema) == [name |-> name, schema |-> <<IdPath>> \o schema]

Field(path, st) == [path |-> path, st |-> st]

\* House <- Room <- Desk, scalar references (the 'References - Simple' models
\* with one more level).
ChainModels ==
    <<Model("House", <<>>),
      Model("Room", <<Field(<<"house">>, ObjectId("House", FALSE))>>),
      Model("Desk", <<Field(<<"room">>, ObjectId("Room", FALSE))>>)>>

\* A model that references itself.
TreeModels ==
    <<Model("Node", <<Field(<<"parent">>, ObjectId("Node", FALSE))>>)>>

\* Two models that reference House, the second declared with cascade: true.
TwoModels ==
    <<Model("House", <<>>),
      Model("Room", <<Field(<<"house">>, ObjectId("House", FALSE))>>),
      Model("Desk", <<Field(<<"house">>, ObjectId("House", TRUE))>>)>>

\* A scalar reference to House registered before an array of references to it.
MixedModels ==
    <<Model("House", <<>>),
      Model("Room", <<Field(<<"house">>, ObjectId("House", FALSE))>>),
      Model("Flat", <<Field(<<"houses">>, SchemaArray("House"))>>)>>

\* One schema with a scalar reference to House before an array of references
\* to House.
BothModels ==
    <<Model("House", <<>>),
      Model("Room", <<Field(<<"house">>, ObjectId("House", FALSE)),
                      Field(<<"houses">>, SchemaArray("House"))>>)>>

\* House <- Room <- Desk <- Lamp, scalar references.
DeepModels ==
    <<Model("House", <<>>),
      Model("Room", <<Field(<<"house">>, ObjectId("House", FALSE))>>),
      Model("Desk", <<Field(<<"room">>, ObjectId("Room", FALSE))>>),
      Model("Lamp", <<Field(<<"desk">>, ObjectId("Desk", FALSE))>>)>>

\* Desk references Room and House, Room references House.
CrossModels ==
    <<Model("House", <<>>),
      Model("Room", <<Field(<<"house">>, ObjectId("House", FALSE))>>),
      Model("Desk", <<Field(<<"room">>, ObjectId("Room", FALSE)),
                      Field(<<"house">>, ObjectId("House", FALSE))>>)>>

\* 'References - Array of Refs': houses: [{ type: ObjectId, ref }]
ArrayOfRefsModels ==
    <<Model("House", <<>>),
      Model("Room", <<Field(<<"houses">>, SchemaArray("House"))>>)>>

\* 'References - Array of Objects': houses: [{ house: { type: ObjectId, ref } }]
ArrayOfObjectsModels ==
    <<Model("House", <<>>),
      Model("Room",
            <<Field(<<"houses">>,
                    DocumentArrayPath(
                        <<Field(<<"house">>, ObjectId("House", FALSE))>>))>>)>>

\* 'References - Nested Arrays':
\* houses: [{ house: { houses: [{ house: { type: ObjectId, ref } }] } }]
NestedArraysModels ==
    <<Model("House", <<>>),
      Model("Room",
            <<Field(<<"houses">>,
                    DocumentArrayPath(
                        <<Field(<<"house", "houses">>,
                                DocumentArrayPath(
                                    <<Field(<<"house">>,
                                            ObjectId("House", FALSE))>>))>>))>>)>>

MaxDepth == 3

RECURSIVE NestedPath(_)
\* 'nested.nested. ... ' n times
NestedPath(n) == IF n = 0 THEN <<>> ELSE <<"nested">> \o NestedPath(n - 1)

\* 'References - SingleNestedPath', 'References - MultipleNestedPath':
\* nested: { nested: { ... house: { type: ObjectId, ref } } }, n levels of
\* plain objects, which the schema holds as the one path 'nested. ... .house'
\* (n = 0: 'References - Simple').
NestedModels(n) ==
    <<Model("House", <<>>),
      Model("Room", <<Field(NestedPath(n) \o <<"house">>,
                            ObjectId("House", FALSE))>>)>>

RECURSIVE SubSchema(_)
\* The same nesting made of sub-schemas: nested: new Schema({ ... })
SubSchema(n) ==
    IF n = 0 THEN <<Field(<<"house">>, ObjectId("House", FALSE))>>
    ELSE <<Field(<<"nested">>, SingleNestedPath(SubSchema(n - 1)))>>

SubModels(n) == <<Model("House", <<>>), Model("Room", SubSchema(n))>>

NestedName(n) == "Nested" \o ToString(n)

SubName(n) == "Sub" \o ToString(n)

NestedApps == {NestedName(n) : n \in 0..MaxDepth}

SubApps == {SubName(n) : n \in 1..MaxDepth}

\* The number of levels of nesting of a Nested / Sub application
DepthOf(a) ==
    CHOOSE n \in 0..MaxDepth : a = NestedName(n) \/ a = SubName(n)

Models(a) ==
    CASE a = "Chain" -> ChainModels
      [] a = "Tree"  -> TreeModels
      [] a = "Two"   -> TwoModels
      [] a = "Mixed" -> MixedModels
      [] a = "Cross" -> CrossModels
      [] a = "Both"  -> BothModels
      [] a = "Deep"  -> DeepModels
      [] a = "ArrayOfRefs"    -> ArrayOfRefsModels
      [] a = "ArrayOfObjects" -> ArrayOfObjectsModels
      [] a = "NestedArrays"   -> NestedArraysModels
      [] a \in NestedApps      -> NestedModels(DepthOf(a))
      [] a \in SubApps         -> SubModels(DepthOf(a))

ModelNames(a) == {Models(a)[i].name : i \in 1..Len(Models(a))}

SchemaOf(a, name) ==
    Models(a)[CHOOSE i \in 1..Len(Models(a)) : Models(a)[i].name = name].schema

Doc(model, val) == [model |-> model, val |-> O(val), _deleted |-> FALSE]

ChainDocs ==
    {  (1 :> Doc("House", [_id |-> V(1)]))
    @@ (2 :> Doc("Room", [_id |-> V(2), house |-> V(h2)]))
    @@ (3 :> Doc("Room", [_id |-> V(3), house |-> V(h3)]))
    @@ (4 :> Doc("Desk", [_id |-> V(4), room |-> V(r4)]))
       : h2 \in {NULL, 1}, h3 \in {NULL, 1}, r4 \in {NULL, 2, 3} }

TreeDocs ==
    {  (1 :> Doc("Node", [_id |-> V(1), parent |-> V(p1)]))
    @@ (2 :> Doc("Node", [_id |-> V(2), parent |-> V(p2)]))
    @@ (3 :> Doc("Node", [_id |-> V(3), parent |-> V(p3)]))
       : p1 \in {NULL, 1, 2}, p2 \in {NULL, 1}, p3 \in {NULL, 1, 2} }

TwoDocs ==
    {  (1 :> Doc("House", [_id |-> V(1)]))
    @@ (2 :> Doc("Room", [_id |-> V(2), house |-> V(h2)]))
    @@ (3 :> Doc("Desk", [_id |-> V(3), house |-> V(h3)]))
       : h2 \in {NULL, 1}, h3 \in {NULL, 1} }

MixedDocs ==
    {  (1 :> Doc("House", [_id |-> V(1)]))
    @@ (2 :> Doc("Room", [_id |-> V(2), house |-> V(h2)]))
    @@ (3 :> Doc("Flat", [_id |-> V(3), houses |-> A(hs)]))
       : h2 \in {NULL, 1}, hs \in {<<>>, <<V(1)>>} }

CrossDocs ==
    {  (1 :> Doc("House", [_id |-> V(1)]))
    @@ (2 :> Doc("Room", [_id |-> V(2), house |-> V(h2)]))
    @@ (3 :> Doc("Desk", [_id |-> V(3), room |-> V(r3), house |-> V(h3)]))
       : h2 \in {NULL, 1}, r3 \in {NULL, 2}, h3 \in {NULL, 1} }

DeepDocs ==
    {  (1 :> Doc("House", [_id |-> V(1)]))
    @@ (2 :> Doc("Room", [_id |-> V(2), house |-> V(1)]))
    @@ (3 :> Doc("Desk", [_id |-> V(3), room |-> V(2)]))
    @@ (4 :> Doc("Lamp", [_id |-> V(4), desk |-> V(d4)]))
       : d4 \in {NULL, 3} }

MaxLen == 2

\* The sequences over S of length at most n
SeqsUpTo(S, n) == UNION {[1..k -> S] : k \in 0..n}

Houses == {1, 2}

\* houses: [h, ...]
RefArrays == {A(s) : s \in SeqsUpTo({V(h) : h \in Houses}, MaxLen)}

\* houses: [{ house: h }, ...]
ObjectArrays ==
    {A(s) : s \in SeqsUpTo({O([house |-> V(h)]) : h \in Houses \cup {NULL}},
                           MaxLen)}

MaxOuter == 2

\* houses: [{ house: { houses: [{ house: h }, ...] } }, ...]
NestedArrays ==
    {A(s) : s \in SeqsUpTo(
                {O([house |-> O([houses |-> A(inner)])]) :
                    inner \in SeqsUpTo({O([house |-> V(h)]) : h \in Houses},
                                       MaxLen)},
                MaxOuter)}

ArrayOfRefsDocs ==
    {  (1 :> Doc("House", [_id |-> V(1)]))
    @@ (2 :> Doc("House", [_id |-> V(2)]))
    @@ (3 :> Doc("Room", [_id |-> V(3), houses |-> a3]))
    @@ (4 :> Doc("Room", [_id |-> V(4), houses |-> a4]))
       : a3 \in RefArrays, a4 \in {A(<<V(2)>>), A(<<V(2), V(1)>>)} }

ArrayOfObjectsDocs ==
    {  (1 :> Doc("House", [_id |-> V(1)]))
    @@ (2 :> Doc("House", [_id |-> V(2)]))
    @@ (3 :> Doc("Room", [_id |-> V(3), houses |-> a3]))
    @@ (4 :> Doc("Room", [_id |-> V(4), houses |-> a4]))
       : a3 \in ObjectArrays,
         a4 \in {A(<<O([house |-> V(2)])>>),
                 A(<<O([house |-> V(2)]), O([house |-> V(1)])>>)} }

NestedArraysDocs ==
    {  (1 :> Doc("House", [_id |-> V(1)]))
    @@ (2 :> Doc("House", [_id |-> V(2)]))
    @@ (3 :> Doc("Room", [_id |-> V(3), houses |-> a3]))
       : a3 \in NestedArrays }

RECURSIVE Nest(_, _)
\* { nested: { ... { house: h } } } with n levels of nesting, as fields
Nest(n, h) ==
    IF n = 0 THEN [house |-> V(h)] ELSE [nested |-> O(Nest(n - 1, h))]

\* Two houses and two rooms, each room with any reference
NestedDocs(n) ==
    {  (1 :> Doc("House", [_id |-> V(1)]))
    @@ (2 :> Doc("House", [_id |-> V(2)]))
    @@ (3 :> Doc("Room", [_id |-> V(3)] @@ Nest(n, h3)))
    @@ (4 :> Doc("Room", [_id |-> V(4)] @@ Nest(n, h4)))
       : h3 \in {NULL, 1, 2}, h4 \in {NULL, 1, 2} }

Docs(a) ==
    CASE a = "Chain" -> ChainDocs
      [] a = "Tree"  -> TreeDocs
      [] a = "Two"   -> TwoDocs
      [] a = "Mixed" -> MixedDocs
      [] a = "Cross" -> CrossDocs
      [] a = "Deep"  -> DeepDocs
      [] a = "ArrayOfRefs"    -> ArrayOfRefsDocs
      [] a = "ArrayOfObjects" -> ArrayOfObjectsDocs
      [] a = "NestedArrays"   -> NestedArraysDocs
      [] a \in NestedApps \cup SubApps -> NestedDocs(DepthOf(a))

RECURSIVE RefFields(_, _, _)
\* The reference fields of a schema, each as [modelName, path, target].
RefFields(modelName, pre, schema) ==
    IF schema = <<>> THEN <<>>
    ELSE LET path == pre \o schema[1].path
             st   == schema[1].st
         IN  (IF st.ctor = "SchemaArray" /\ st.type0.ref # NONE
              THEN <<[modelName |-> modelName, path |-> path,
                      target |-> st.type0.ref]>>
              ELSE IF st.ctor \in {"DocumentArrayPath", "SingleNestedPath"}
              THEN RefFields(modelName, path, st.schema)
              ELSE IF st.ref # NONE
              THEN <<[modelName |-> modelName, path |-> path,
                      target |-> st.ref]>>
              ELSE <<>>)
             \o RefFields(modelName, pre, Tail(schema))

\* The schema types that carry the live required / cascade properties.
FlagKeys(a) ==
    UNION {{<<f.modelName, f.path>> :
              f \in {RefFields(Models(a)[i].name, <<>>, Models(a)[i].schema)[k] :
                       k \in 1..Len(RefFields(Models(a)[i].name, <<>>,
                                              Models(a)[i].schema))}} :
           i \in 1..Len(Models(a))}

FlagValues == [required : BOOLEAN, cascade : BOOLEAN]

\* const refs = {}
EmptyRefs == [m \in {} |-> <<>>]

(***************************************************************************)
(* The deletion policy engine.  A task is one call of doc.deleteOne() or   *)
(* doc.softDelete(v) in flight: the caller's, or one issued by a cascade.  *)
(* A step of a task is one operation of the store; what runs between two   *)
(* of them (the loop of onDelete, the settling of Promise.all, the catch   *)
(* of the soft-delete hook) is part of the step it follows.                *)
(***************************************************************************)
MaxTasks == 5

NoErr == [name |-> "none"]

\* An error that takes the source model for the model being deleted.
RefConstraintErrorOfSource(modelName, modelRef, pathRef, whoIsBlocking) ==
    [name |-> "RefConstraintError", modelName |-> modelRef,
     modelRef |-> modelName, pathRef |-> pathRef,
     whoIsBlocking |-> whoIsBlocking]

RefConstraintError(modelName, modelRef, pathRef, whoIsBlocking) ==
    [name |-> "RefConstraintError", modelName |-> modelName,
     modelRef |-> modelRef, pathRef |-> pathRef,
     whoIsBlocking |-> whoIsBlocking]

\* Where a call stands once descriptor idx - 1 of refs[model] is resolved:
\* in the loop of onDelete, or past it, at the store's own delete / save.
After(model, idx) == IF idx > Len(refs[model]) THEN "commit" ELSE "hook"

\* softDelete(v) sets document._deleted = v before its hooks run.
NewTask(d, soft, del, parent) ==
    [doc |-> d, model |-> store[d].model, soft |-> soft, del |-> del,
     parent |-> parent, idx |-> 1, pc |-> After(store[d].model, 1),
     batch |-> {}, mem |-> del, err |-> NoErr, called |-> <<>>]

Active(t) == t.pc \in {"hook", "await", "commit"}

\* A find that yields one matching document at most.
FindFirst(modelRef, q) ==
    LET S == {d \in DOMAIN store :
                 store[d].model = modelRef
                 /\ Matches(store[d].val, q.path, q.value)}
    IN  IF S = {} THEN {} ELSE {CHOOSE d \in S : \A x \in S : d <= x}

\* A find that leaves out the soft-deleted documents.
FindLive(modelRef, q) ==
    {d \in DOMAIN store :
        /\ store[d].model = modelRef
        /\ ~store[d]._deleted
        /\ Matches(store[d].val, q.path, q.value)}

\* mongoose.model(modelRef).find(queryObject): the ids of the matching documents
Find(modelRef, q) ==
    {d \in DOMAIN store :
        store[d].model = modelRef /\ Matches(store[d].val, q.path, q.value)}

\* The descriptor a task is at, and its live flags.
DescOf(t) == refs[t.model][t.idx]

\* required as the schema declared it at registration (required: true).
RequiredAsDeclared(desc) == TRUE

LiveRequired(desc) == flags[<<desc.modelName, desc.path>>].required

LiveCascade(desc) ==
    flags[<<desc.modelName, desc.path>>].cascade \/ desc.optCascade

\* A choice that looks at cascade before required.
PolicyCascadeFirst(desc) ==
    IF LiveCascade(desc) THEN "Cascade"
    ELSE IF LiveRequired(desc) THEN "Block" ELSE "SetNull"

\* onDelete's choice for one descriptor
Policy(desc) ==
    IF LiveRequired(desc)
    THEN IF LiveCascade(desc) THEN "Cascade" ELSE "Block"
    ELSE "SetNull"

\* A catch that notes the error and lets onDelete go on with the next
\* descriptor.
CaughtAndGoOn(t, e) ==
    [t EXCEPT !.err = e, !.idx = @ + 1,
              !.pc = After(t.model, t.idx + 1)]

\* A catch that sets document._deleted = false whatever the error is.
CaughtResetAlways(t, e) ==
    [t EXCEPT !.pc = "failed", !.err = e,
              !.mem = IF t.soft THEN FALSE ELSE @]

\* A catch that rethrows and leaves document._deleted as it was set.
CaughtNoRollback(t, e) == [t EXCEPT !.pc = "failed", !.err = e]

\* The catch of the soft-delete hook: document._deleted = false on a
\* RefConstraintError; the hooks of deleteOne / remove catch nothing.
Caught(t, e) ==
    [t EXCEPT !.pc = "failed", !.err = e,
              !.mem = IF t.soft /\ e.name = "RefConstraintError"
                      THEN FALSE ELSE @]

RECURSIVE RejectWrapped(_, _, _)
\* A rejection that each call on the way up rewrites in its own name.
RejectWrapped(ts, i, e) ==
    LET ts1 == [ts EXCEPT ![i] = Caught(ts[i], e)]
        p   == ts[i].parent
    IN  IF p # 0 /\ ts[p].pc = "await"
        THEN RejectWrapped(ts1, p, [e EXCEPT !.modelName = ts[p].model])
        ELSE ts1

RECURSIVE Reject(_, _, _)
\* Task i throws e: its call rejects, and so does the Promise.all of a parent
\* that awaits it, and that parent's call, up to the first caller.
Reject(ts, i, e) ==
    LET ts1 == [ts EXCEPT ![i] = Caught(ts[i], e)]
        p   == ts[i].parent
    IN  IF p # 0 /\ ts[p].pc = "await" THEN Reject(ts1, p, e) ELSE ts1

\* onDelete of task i calls the policy function `name` for its descriptor.
Invoke(ts, i, name) == [ts EXCEPT ![i].called = Append(@, name)]

\* Descriptor idx of task i is resolved: onDelete goes on to the next one.
Advance(ts, i) ==
    [ts EXCEPT ![i].idx = @ + 1, ![i].batch = {},
               ![i].pc = After(ts[i].model, ts[i].idx + 1)]

\* A parent that goes on as soon as one call of its batch has fulfilled
\* (Promise.race in place of Promise.all).
FulfilFirst(ts, i) ==
    LET ts1 == [ts EXCEPT ![i].pc = "done"]
        p   == ts[i].parent
    IN  IF p # 0 /\ ts1[p].pc = "await"
           /\ \E c \in ts1[p].batch : ts1[c].pc = "done"
        THEN Advance(ts1, p) ELSE ts1

\* Task i has fulfilled: a parent whose batch has all fulfilled goes on.
Fulfil(ts, i) ==
    LET ts1 == [ts EXCEPT ![i].pc = "done"]
        p   == ts[i].parent
    IN  IF p # 0 /\ ts1[p].pc = "await"
           /\ \A c \in ts1[p].batch : ts1[c].pc = "done"
        THEN Advance(ts1, p) ELSE ts1

RECURSIVE SortedSeq(_)
\* The documents of a find, in id order.
SortedSeq(S) ==
    IF S = {} THEN <<>>
    ELSE LET m == CHOOSE x \in S : \A y \in S : x <= y
         IN  <<m>> \o SortedSeq(S \ {m})

\* The store after an updateOne: the first matching document is updated.
UpdateOne(modelRef, q, u) ==
    [d \in DOMAIN store |->
        IF d \in FindFirst(modelRef, q)
        THEN [store[d] EXCEPT !.val = ApplyUpdate(@, u.path, u)]
        ELSE store[d]]

\* The store after updateMany(find selector, update, options) on modelRef
UpdateMany(modelRef, q, u) ==
    [d \in DOMAIN store |->
        IF d \in Find(modelRef, q)
        THEN [store[d] EXCEPT !.val = ApplyUpdate(@, u.path, u)]
        ELSE store[d]]

\* A nullification that does not look at softDelete.
SetNullAlways(softDelete) == TRUE

\* Whether onDeleteSetNull updates the referencing documents.
SetNullApplies(softDelete) == ~softDelete

\* onDeleteSetNull: on a hard delete one bulk update of the referencing
\* documents; nothing on a soft delete.
onDeleteSetNull(i) ==
    LET t    == tasks[i]
        desc == DescOf(t)
    IN  /\ t.pc = "hook"
        /\ Policy(desc) = "SetNull"
        /\ store' = IF SetNullApplies(t.soft)
                    THEN UpdateMany(desc.modelName,
                             getFindQueryObjectFor(desc.modelName, desc.path, t.doc),
                             getUpdateQueryObjectFor(SchemaOf(app, desc.modelName),
                                                     desc.path, t.doc))
                    ELSE store
        /\ tasks' = Advance(Invoke(tasks, i, "onDeleteSetNull"), i)
        /\ UNCHANGED <<app, calls, refs, flags, gone, store0, prev, built>>

\* Cascaded calls that always soft-delete, whatever the direction.
SpawnDeleting(docs, soft, del, parent) ==
    [k \in 1..Len(docs) |-> NewTask(docs[k], soft, TRUE, parent)]

\* Cascaded calls that skip the hooks of the documents found: each is
\* removed or saved as it is (a deleteMany in place of doc.deleteOne()).
SpawnPastHooks(docs, soft, del, parent) ==
    [k \in 1..Len(docs) |->
        [NewTask(docs[k], soft, del, parent)
            EXCEPT !.pc = "commit",
                   !.idx = Len(refs[store[docs[k]].model]) + 1]]

\* The calls a cascade issues, one per document found, all at once.
Spawn(docs, soft, del, parent) ==
    [k \in 1..Len(docs) |-> NewTask(docs[k], soft, del, parent)]

\* onDeleteCascade: find the referencing documents and call deleteOne() or
\* softDelete(_deleted) on each; Promise.all awaits them.
onDeleteCascade(i) ==
    LET t    == tasks[i]
        desc == DescOf(t)
        docs == SortedSeq(Find(desc.modelName,
                    getFindQueryObjectFor(desc.modelName, desc.path, t.doc)))
        n    == Len(tasks)
    IN  /\ t.pc = "hook"
        /\ Policy(desc) = "Cascade"
        /\ n + Len(docs) <= MaxTasks
        /\ tasks' = IF docs = <<>>
                    THEN Advance(Invoke(tasks, i, "onDeleteCascade"), i)
                    ELSE [Invoke(tasks, i, "onDeleteCascade")
                             EXCEPT ![i].pc = "await",
                                    ![i].batch = (n + 1)..(n + Len(docs))]
                         \o Spawn(docs, t.soft, t.del, i)
        /\ UNCHANGED <<app, calls, refs, flags, store, gone, store0, prev, built>>

\* A Block that is looked at on soft deletes only.
BlockCheckedOnSoftOnly(softDelete, _deleted) == softDelete /\ _deleted

\* A Block that is looked at in both directions of a soft delete.
BlockCheckedAlways(softDelete, _deleted) == TRUE

\* The document is removed by the deleteOne / remove the hook ran before.
RemoveDoc(d) == [x \in DOMAIN store \ {d} |-> store[x]]

\* Whether onDeleteBlock looks for a referencing document at all.
BlockChecked(softDelete, _deleted) == ~softDelete \/ _deleted

\* A Block check that runs once the document has been removed (a post
\* hook in place of the pre hook).
onDeleteBlockAfterRemove(i) ==
    LET t     == tasks[i]
        desc  == DescOf(t)
        found == IF BlockChecked(t.soft, t.del)
                 THEN Find(desc.modelName,
                          getFindQueryObjectFor(desc.modelName, desc.path, t.doc))
                 ELSE {}
    IN  /\ t.pc = "hook"
        /\ Policy(desc) = "Block"
        /\ IF found = {}
           THEN tasks' = Advance(Invoke(tasks, i, "onDeleteBlock"), i)
                /\ store' = store
           ELSE \E constrainedDoc \in found :
                   /\ tasks' = Reject(Invoke(tasks, i, "onDeleteBlock"), i,
                                  RefConstraintError(t.model, desc.modelName,
                                                     desc.path, constrainedDoc))
                   /\ store' = RemoveDoc(t.doc)
        /\ UNCHANGED <<app, calls, refs, flags, gone, store0, prev, built>>

\* A Block check whose refusal puts the collections back as they were when
\* the application made the call (a transaction around onDelete).
onDeleteBlockRollingBack(i) ==
    LET t     == tasks[i]
        desc  == DescOf(t)
        found == IF BlockChecked(t.soft, t.del)
                 THEN Find(desc.modelName,
                          getFindQueryObjectFor(desc.modelName, desc.path, t.doc))
                 ELSE {}
    IN  /\ t.pc = "hook"
        /\ Policy(desc) = "Block"
        /\ IF found = {}
           THEN tasks' = Advance(Invoke(tasks, i, "onDeleteBlock"), i)
                /\ store' = store
           ELSE \E constrainedDoc \in found :
                   /\ tasks' = Reject(Invoke(tasks, i, "onDeleteBlock"), i,
                                  RefConstraintError(t.model, desc.modelName,
                                                     desc.path, constrainedDoc))
                   /\ store' = store0
        /\ UNCHANGED <<app, calls, refs, flags, gone, store0, prev, built>>

\* onDeleteBlock: throw when a referencing document is found.
onDeleteBlock(i) ==
    LET t     == tasks[i]
        desc  == DescOf(t)
        found == IF BlockChecked(t.soft, t.del)
                 THEN Find(desc.modelName,
                          getFindQueryObjectFor(desc.modelName, desc.path, t.doc))
                 ELSE {}
    IN  /\ t.pc = "hook"
        /\ Policy(desc) = "Block"
        /\ IF found = {}
           THEN tasks' = Advance(Invoke(tasks, i, "onDeleteBlock"), i)
           ELSE \E constrainedDoc \in found :
                   tasks' = Reject(Invoke(tasks, i, "onDeleteBlock"), i,
                               RefConstraintError(t.model, desc.modelName,
                                                  desc.path, constrainedDoc))
        /\ UNCHANGED <<app, calls, refs, flags, store, gone, store0, prev, built>>

\* What the store throws when one of its operations fails, with the place
\* of the operation: the model being deleted, the collection and the path
\* it was for.
StoreOperationError(modelName, modelRef, pathRef, op) ==
    [name |-> "StoreOperationError", modelName |-> modelName,
     modelRef |-> modelRef, pathRef |-> pathRef, op |-> op]

\* The policy function onDelete calls for a policy, and its store operation
PolicyFunction(policy) ==
    CASE policy = "SetNull" -> [name |-> "onDeleteSetNull", op |-> "updateMany"]
      [] policy = "Cascade" -> [name |-> "onDeleteCascade", op |-> "find"]
      [] policy = "Block"   -> [name |-> "onDeleteBlock", op |-> "findOne"]

\* The store operation of the policy function of call i fails (the exec()
\* of updateMany, find or findOne rejects): the function throws what the
\* store threw, and nothing has been written.
StoreFails(i) ==
    LET t    == tasks[i]
        desc == DescOf(t)
        fn   == PolicyFunction(Policy(desc))
    IN  /\ t.pc = "hook"
        /\ CASE Policy(desc) = "SetNull" -> SetNullApplies(t.soft)
             [] Policy(desc) = "Cascade" -> TRUE
             [] Policy(desc) = "Block"   -> BlockChecked(t.soft, t.del)
        /\ tasks' = Reject(Invoke(tasks, i, fn.name), i,
                           StoreOperationError(t.model, desc.modelName,
                                               desc.path, fn.op))
        /\ UNCHANGED <<app, calls, refs, flags, store, gone, store0, prev,
                       built>>

\* The hooks of deleteOne / remove have run with no error: the document is
\* removed from its collection.
CommitDelete(i) ==
    LET t == tasks[i]
    IN  /\ t.pc = "commit"
        /\ ~t.soft
        /\ store' = RemoveDoc(t.doc)
        /\ gone' = IF t.doc \in DOMAIN store THEN gone \cup {t.doc} ELSE gone
        /\ tasks' = Fulfil(tasks, i)
        /\ UNCHANGED <<app, calls, refs, flags, store0, prev, built>>

\* The soft-delete hook has run with no error: the document is saved with
\* the _deleted it was given.
CommitSoftDelete(i) ==
    LET t == tasks[i]
    IN  /\ t.pc = "commit"
        /\ t.soft
        /\ store' = IF t.doc \in DOMAIN store
                    THEN [store EXCEPT ![t.doc]._deleted = t.mem]
                    ELSE store
        /\ tasks' = Fulfil(tasks, i)
        /\ UNCHANGED <<app, calls, refs, flags, gone, store0, prev, built>>

Quiescent == tasks = <<>>

NoStore == [x \in {} |-> NULL]

\* await doc.deleteOne() by the application
DeleteOne(d) ==
    /\ Quiescent
    /\ d \in DOMAIN store
    /\ tasks' = <<NewTask(d, FALSE, FALSE, 0)>>
    /\ store0' = store
    /\ UNCHANGED <<app, calls, refs, flags, store, gone, prev, built>>

\* await doc.softDelete(v) by the application
SoftDelete(d, v) ==
    /\ Quiescent
    /\ d \in DOMAIN store
    /\ tasks' = <<NewTask(d, TRUE, v, 0)>>
    /\ store0' = store
    /\ UNCHANGED <<app, calls, refs, flags, store, gone, prev, built>>

\* No call has returned yet.
NoCall == [doc |-> NULL, ok |-> TRUE]

\* The call has settled and nothing it issued is still in flight: the
\* application goes on, knowing whether the call on the document threw.
Return ==
    /\ tasks # <<>>
    /\ \A i \in 1..Len(tasks) : ~Active(tasks[i])
    /\ tasks' = <<>>
    /\ store0' = NoStore
    /\ prev' = [doc |-> tasks[1].doc, ok |-> tasks[1].pc = "done"]
    /\ UNCHANGED <<app, calls, refs, flags, store, gone, built>>

\* The application goes on as in Return and remembers, of the call that
\* has settled, the value it gave to softDelete and the documents that were
\* soft-deleted when it made the call.
ReturnNoting ==
    /\ tasks # <<>>
    /\ \A i \in 1..Len(tasks) : ~Active(tasks[i])
    /\ tasks' = <<>>
    /\ store0' = NoStore
    /\ prev' = [doc |-> tasks[1].doc, ok |-> tasks[1].pc = "done",
                del |-> tasks[1].del,
                deleted |-> {d \in DOMAIN store0 : store0[d]._deleted}]
    /\ UNCHANGED <<app, calls, refs, flags, store, gone, built>>

\* schema.path(p).required = r, schema.path(p).cascade = c between two calls
SetFlags(k, v) ==
    /\ Quiescent
    /\ flags[k] # v
    /\ flags' = [flags EXCEPT ![k] = v]
    /\ UNCHANGED <<app, calls, refs, store, gone, tasks, store0, prev, built>>

NoUpdate == [op |-> NONE, path |-> <<>>, value |-> NULL, arrayFilters |-> <<>>]

\* No schema is under the builders.
NotBuilt ==
    [kinds |-> <<>>, terminal |-> NONE, referencedId |-> NULL,
     find |-> getFindQueryObjectFor(NONE, <<>>, NULL), update |-> NoUpdate]

HardApps == {"Chain", "Tree", "Two", "Mixed", "Cross"}

ArrayApps == {"ArrayOfRefs", "ArrayOfObjects", "NestedArrays"}

SoftApps == {"Chain", "Tree", "Two", "Cross"}

\* The registry is the one the application's plugin() calls have built; the
\* collections hold any documents whose references are null or existing ids.
InitApp(a) ==
    /\ app = a
    /\ calls = [i \in 1..Len(Models(a)) |-> Models(a)[i].name]
    /\ refs = RegisterAll(EmptyRefs, Models(a))
    /\ flags \in [FlagKeys(a) -> FlagValues]
    /\ store \in Docs(a)
    /\ gone = {}
    /\ tasks = <<>>
    /\ store0 = NoStore
    /\ prev = NoCall
    /\ built = NotBuilt

MaxCalls == 4

PluginApps ==
    HardApps \cup ArrayApps \cup {"Both", NestedName(1), SubName(1)}

MaxSegs == 3

\* What a segment of the way to a reference field is: the name of a plain
\* nested object, a sub-schema (SingleNestedPath), or an array of
\* sub-documents (DocumentArrayPath).
Kinds == {"object", "single", "array"}

\* The reference field itself: a scalar, or an array of bare references.
Terminals == {"ObjectId", "SchemaArray"}

\* The name of the i-th segment: the initial of its kind, then i
SegName(kind, i) ==
    (CASE kind = "object" -> "o" [] kind = "single" -> "s" [] kind = "array" -> "a")
    \o ToString(i)

RECURSIVE ShapeSchema(_, _, _)
\* The schema that puts the reference field 'ref' under segments of the
\* given kinds, from the i-th on: a plain object adds its name to the path
\* of what it holds, the other two hold a sub-schema.
ShapeSchema(kinds, terminal, i) ==
    IF i > Len(kinds)
    THEN <<Field(<<"ref">>, IF terminal = "SchemaArray"
                            THEN SchemaArray("House")
                            ELSE ObjectId("House", FALSE))>>
    ELSE LET inner == ShapeSchema(kinds, terminal, i + 1)
             name  == SegName(kinds[i], i)
         IN  CASE kinds[i] = "object" ->
                    <<Field(<<name>> \o inner[1].path, inner[1].st)>>
               [] kinds[i] = "single" ->
                    <<Field(<<name>>, SingleNestedPath(inner))>>
               [] kinds[i] = "array" ->
                    <<Field(<<name>>, DocumentArrayPath(inner))>>

\* House, and Room with its one reference to House under the segments
ShapeModels(kinds, terminal) ==
    <<Model("House", <<>>), Model("Room", ShapeSchema(kinds, terminal, 1))>>

\* The models are registered; nothing has been deleted yet.
InitBuilder ==
    /\ app = "Shape"
    /\ calls = <<"House", "Room">>
    /\ \E kinds \in SeqsUpTo(Kinds, MaxSegs) : \E terminal \in Terminals :
          /\ refs = RegisterAll(EmptyRefs, ShapeModels(kinds, terminal))
          /\ built = [NotBuilt EXCEPT !.kinds = kinds, !.terminal = terminal]
    /\ flags = [k \in {} |-> [required |-> TRUE, cascade |-> FALSE]]
    /\ store = NoStore
    /\ gone = {}
    /\ tasks = <<>>
    /\ store0 = NoStore
    /\ prev = NoCall

\* onDeleteSetNull builds the selector and the update for the descriptor
\* of Room's reference and the id of the House being deleted.
Build(referencedId) ==
    LET desc   == refs["House"][1]
        schema == ShapeModels(built.kinds, built.terminal)[2].schema
    IN  /\ built.referencedId # referencedId
        /\ built' = [built EXCEPT
               !.referencedId = referencedId,
               !.find = getFindQueryObjectFor(desc.modelName, desc.path,
                                              referencedId),
               !.update = getUpdateQueryObjectFor(schema, desc.path,
                                                  referencedId)]
        /\ UNCHANGED <<app, calls, refs, flags, store, gone, tasks, store0,
                       prev>>

NextBuilder == \E referencedId \in Houses : Build(referencedId)

\* The builders on every shape of schema of MaxSegs segments or fewer
SpecBuilder == InitBuilder /\ [][NextBuilder]_vars

\* The required / cascade properties as the schemas declare them in the
\* tests: required: true, no cascade property.
DeclaredFlags(a) ==
    [k \in FlagKeys(a) |-> [required |-> TRUE, cascade |-> FALSE]]

\* The process has started: nothing is registered, nothing is stored.
InitPlugin ==
    /\ app \in PluginApps
    /\ calls = <<>>
    /\ refs = EmptyRefs
    /\ flags = DeclaredFlags(app)
    /\ store = NoStore
    /\ gone = {}
    /\ tasks = <<>>
    /\ store0 = NoStore
    /\ prev = NoCall
    /\ built = NotBuilt

\* plugin(modelName, schema) called by the application for its i-th model
Plugin(i) ==
    /\ Quiescent
    /\ Len(calls) < MaxCalls
    /\ refs' = plugin(refs, Models(app)[i].name, Models(app)[i].schema)
    /\ calls' = Append(calls, Models(app)[i].name)
    /\ UNCHANGED <<app, flags, store, gone, tasks, store0, prev, built>>

NextPlugin == \E i \in 1..Len(Models(app)) : Plugin(i)

\* Hard deletes, soft deletes and restores on one application
NextDeep ==
    \/ \E d \in DOMAIN store : DeleteOne(d)
    \/ \E d \in DOMAIN store : \E v \in BOOLEAN : SoftDelete(d, v)
    \/ \E i \in 1..Len(tasks) : onDeleteSetNull(i)
    \/ \E i \in 1..Len(tasks) : onDeleteCascade(i)
    \/ \E i \in 1..Len(tasks) : onDeleteBlock(i)
    \/ \E i \in 1..Len(tasks) : CommitDelete(i)
    \/ \E i \in 1..Len(tasks) : CommitSoftDelete(i)
    \/ Return

InitDeep == InitApp("Deep")

SpecDeep == InitDeep /\ [][NextDeep]_vars

RestoreApps == {"Chain", "Two"}

InitRestore == \E a \in RestoreApps : InitApp(a)

\* Soft deletes and restores, one call after the other, the application
\* keeping track of what it did.
NextRestore ==
    \/ \E d \in DOMAIN store : \E v \in BOOLEAN : SoftDelete(d, v)
    \/ \E i \in 1..Len(tasks) : onDeleteSetNull(i)
    \/ \E i \in 1..Len(tasks) : onDeleteCascade(i)
    \/ \E i \in 1..Len(tasks) : onDeleteBlock(i)
    \/ \E i \in 1..Len(tasks) : CommitSoftDelete(i)
    \/ ReturnNoting

SpecRestore == InitRestore /\ [][NextRestore]_vars

FaultyApps == {"Chain", "Two"}

InitFaulty == \E a \in FaultyApps : InitApp(a)

\* Soft deletes and restores on a store whose operations may fail
NextFaulty ==
    \/ \E d \in DOMAIN store : \E v \in BOOLEAN : SoftDelete(d, v)
    \/ \E i \in 1..Len(tasks) : onDeleteSetNull(i)
    \/ \E i \in 1..Len(tasks) : onDeleteCascade(i)
    \/ \E i \in 1..Len(tasks) : onDeleteBlock(i)
    \/ \E i \in 1..Len(tasks) : StoreFails(i)
    \/ \E i \in 1..Len(tasks) : CommitSoftDelete(i)
    \/ Return

SpecFaulty == InitFaulty /\ [][NextFaulty]_vars

\* Registration: the application's plugin() calls, in any order and number
SpecPlugin == InitPlugin /\ [][NextPlugin]_vars

RECURSIVE Ancestors(_, _)
\* The calls that await call i: the one that issued it, and so on up to the
\* call of the application.
Ancestors(ts, i) ==
    IF ts[i].parent = 0 THEN {}
    ELSE {ts[i].parent} \cup Ancestors(ts, ts[i].parent)

\* Call c has been issued by a cascade on the very document of the
\* application's call, which awaits it, and its hook has not begun.
Reentrant(c) ==
    /\ c > 1
    /\ tasks[c].doc = tasks[1].doc
    /\ tasks[c].pc = "hook"
    /\ tasks[c].called = <<>>
    /\ \A a \in Ancestors(tasks, c) : tasks[a].pc = "await"

\* Every call but c and those that await it has settled: nothing happens
\* until c returns.  c is the application's call over again, on the store
\* as it is now, and the model follows it in place of the calls above it,
\* which stay at their await.
Reenter(c) ==
    /\ Reentrant(c)
    /\ \A k \in (1..Len(tasks)) \ ({c} \cup Ancestors(tasks, c)) :
          ~Active(tasks[k])
    /\ tasks' = <<[tasks[c] EXCEPT !.parent = 0]>>
    /\ store0' = store
    /\ UNCHANGED <<app, calls, refs, flags, store, gone, prev, built>>

\* One step of a call in flight: a store operation of a hook, or the
\* store's own delete / save once the hook has returned.  A call on the
\* document of the application's call has its steps after Reenter.
Step ==
    \/ \E i \in 1..Len(tasks) :
          /\ ~Reentrant(i)
          /\ \/ onDeleteSetNull(i)
             \/ onDeleteCascade(i)
             \/ onDeleteBlock(i)
             \/ CommitDelete(i)
             \/ CommitSoftDelete(i)
    \/ \E c \in 1..Len(tasks) : Reenter(c)

CycleApps == {"Tree"}

InitFair == \E a \in CycleApps : InitApp(a)

NextFair ==
    \/ \E d \in DOMAIN store : DeleteOne(d)
    \/ \E d \in DOMAIN store : \E v \in BOOLEAN : SoftDelete(d, v)
    \/ Step
    \/ Return

\* Hard deletes, soft deletes and restores on collections that may hold
\* cycles of references; the store answers every operation and the event
\* loop runs every continuation that is ready.
SpecFair == InitFair /\ [][NextFair]_vars /\ WF_vars(Step)

\* A hook that takes the value of any condition for the _id.
HookIdOfAnyCondition(this) ==
    IF "_id" \in DOMAIN this THEN {this._id}
    ELSE IF DOMAIN this._conditions = {} THEN {}
    ELSE {this._conditions[CHOOSE k \in DOMAIN this._conditions :
                              k = "_id" \/ "_id" \notin DOMAIN this._conditions]}

\* const _id = this._id || this._conditions._id: the _id of the document
\* when the hook runs on a document, the _id the conditions carry when it
\* runs on a query, none when they carry none.
HookId(this) ==
    IF "_id" \in DOMAIN this THEN {this._id}
    ELSE IF "_id" \in DOMAIN this._conditions THEN {this._conditions._id}
    ELSE {}

\* The reference fields the schema of model m declares at its top level.
TopRefFields(m) ==
    LET F == RefFields(m, <<>>, SchemaOf(app, m))
    IN  {F[k].path[1] : k \in {j \in 1..Len(F) : Len(F[j].path) = 1}}

\* The conditions the application gives to Model.deleteOne: none, an _id of
\* the collection, a value for a reference field, or an _id and a value.
Conditions(m) ==
    LET ids  == {d \in DOMAIN store : store[d].model = m}
        vals == {NULL} \cup DOMAIN store \cup gone
    IN  {[k \in {} |-> NULL]}
        \cup {[k \in {"_id"} |-> x] : x \in ids}
        \cup UNION {{[k \in {f} |-> v] : v \in vals} : f \in TopRefFields(m)}
        \cup UNION {{[k \in {"_id", f} |-> IF k = "_id" THEN x ELSE v] :
                       x \in ids, v \in vals} : f \in TopRefFields(m)}

\* Document d of the store is one that Model(m).deleteOne(c) may delete.
MatchesConditions(d, m, c) ==
    /\ store[d].model = m
    /\ \A k \in DOMAIN c :
          IF k = "_id" THEN d = c[k]
          ELSE Matches(store[d].val, <<k>>, c[k])

\* Model(m).deleteOne(c) in flight: the deleteOne hook of the schema runs
\* with the query as `this`; `if (_id) await onDelete(_id)` enters the loop
\* of onDelete over refs[m] when an _id is read and returns at once when
\* none is.
NewQuery(m, c) ==
    LET _id == HookId([_conditions |-> c])
    IN  [doc |-> IF _id = {} THEN NULL ELSE CHOOSE x \in _id : TRUE,
         model |-> m, soft |-> FALSE, del |-> FALSE, parent |-> 0,
         idx |-> 1, pc |-> IF _id = {} THEN "commit" ELSE After(m, 1),
         batch |-> {}, mem |-> FALSE, err |-> NoErr, called |-> <<>>,
         conditions |-> c]

IsQuery(t) == "conditions" \in DOMAIN t

\* await Model.deleteOne(conditions) by the application
QueryDeleteOne(m, c) ==
    /\ Quiescent
    /\ tasks' = <<NewQuery(m, c)>>
    /\ store0' = store
    /\ UNCHANGED <<app, calls, refs, flags, store, gone, prev, built>>

\* The hook of the query has returned with no error: the store deletes one
\* of the documents that match the conditions, if there is any.
CommitQuery(i) ==
    LET t == tasks[i]
        found == {d \in DOMAIN store : MatchesConditions(d, t.model, t.conditions)}
    IN  /\ IsQuery(t)
        /\ t.pc = "commit"
        /\ IF found = {}
           THEN UNCHANGED <<store, gone>>
           ELSE \E d \in found :
                   /\ store' = RemoveDoc(d)
                   /\ gone' = gone \cup {d}
        /\ tasks' = Fulfil(tasks, i)
        /\ UNCHANGED <<app, calls, refs, flags, store0, prev, built>>

QueryApps == {"Chain", "Two"}

InitQuery == \E a \in QueryApps : InitApp(a)

NextQuery ==
    \/ \E d \in DOMAIN store : DeleteOne(d)
    \/ \E m \in ModelNames(app) : \E c \in Conditions(m) : QueryDeleteOne(m, c)
    \/ \E i \in 1..Len(tasks) : onDeleteSetNull(i)
    \/ \E i \in 1..Len(tasks) : onDeleteCascade(i)
    \/ \E i \in 1..Len(tasks) : onDeleteBlock(i)
    \/ \E i \in 1..Len(tasks) : ~IsQuery(tasks[i]) /\ CommitDelete(i)
    \/ \E i \in 1..Len(tasks) : CommitQuery(i)
    \/ Return

\* Hard deletes through the document (doc.deleteOne(), doc.remove()) and
\* through the model (Model.deleteOne(conditions)).
SpecQuery == InitQuery /\ [][NextQuery]_vars

Init == \E a \in HardApps : InitApp(a)

InitArrays == \E a \in ArrayApps : InitApp(a)

InitSoft == \E a \in SoftApps : InitApp(a)

InitNested == \E a \in NestedApps \cup SubApps : InitApp(a)

Tasks == 1..Len(tasks)

\* Hard deletes: the application deletes documents one call at a time and
\* may change the flags of a reference field between two calls.
Next ==
    \/ \E d \in DOMAIN store : DeleteOne(d)
    \/ \E k \in DOMAIN flags : \E v \in FlagValues : SetFlags(k, v)
    \/ \E i \in Tasks : onDeleteSetNull(i)
    \/ \E i \in Tasks : onDeleteCascade(i)
    \/ \E i \in Tasks : onDeleteBlock(i)
    \/ \E i \in Tasks : CommitDelete(i)
    \/ Return

Spec == Init /\ [][Next]_vars

\* Hard deletes over the collections whose references sit in arrays.
SpecArrays == InitArrays /\ [][Next]_vars

\* Hard deletes on the schemas that nest the reference in objects
SpecNested == InitNested /\ [][Next]_vars

\* Soft deletes and restores.
NextSoft ==
    \/ \E d \in DOMAIN store : \E v \in BOOLEAN : SoftDelete(d, v)
    \/ \E k \in DOMAIN flags : \E v \in FlagValues : SetFlags(k, v)
    \/ \E i \in Tasks : onDeleteSetNull(i)
    \/ \E i \in Tasks : onDeleteCascade(i)
    \/ \E i \in Tasks : onDeleteBlock(i)
    \/ \E i \in Tasks : CommitSoftDelete(i)
    \/ Return

SpecSoft == InitSoft /\ [][NextSoft]_vars

(***************************************************************************)
(* Properties.                                                             *)
(***************************************************************************)
\* The call of the application, and whether it has settled.
Root == tasks[1]

Settled == tasks # <<>> /\ ~Active(tasks[1])

Succeeded == tasks # <<>> /\ tasks[1].pc = "done"

Failed == tasks # <<>> /\ tasks[1].pc = "failed"

\* The documents of model m that hold id at path p, in the collections st.
RefsTo(st, m, p, id) ==
    {d \in DOMAIN st : st[d].model = m /\ Matches(st[d].val, p, id)}

\* The reference fields of the schemas the application gave to plugin().
SchemaRefFields ==
    UNION {{RefFields(Models(app)[i].name, <<>>, Models(app)[i].schema)[k] :
              k \in 1..Len(RefFields(Models(app)[i].name, <<>>,
                                     Models(app)[i].schema))} :
           i \in 1..Len(Models(app))}

\* The descriptors the registry holds.
RegistryFields ==
    UNION {{[modelName |-> refs[m][k].modelName, path |-> refs[m][k].path,
             target |-> m] : k \in 1..Len(refs[m])} : m \in DOMAIN refs}

\* No document of the store holds at a path of F the id of a document that
\* has been hard-deleted.
NoDangling(F) ==
    \A f \in F : \A g \in gone : RefsTo(store, f.modelName, f.path, g) = {}

\* C1: in every reachable state no document of the store holds, at a
\* reference path of a schema registered through plugin(), the id of a
\* document that has been hard-deleted.
C1_NoDanglingReference == NoDangling(SchemaRefFields)

\* The same for the paths whose descriptor the registry still holds.
C1_NoDanglingAtRegistryPaths == NoDangling(RegistryFields)

\* The descriptors registered under the model of the application's call
RootDescs == refs[Root.model]

HardCall == tasks # <<>> /\ ~Root.soft

\* Documents that referenced the root's document through descriptor k when
\* the call was made, and those that do now.
RefsBefore(k) ==
    RefsTo(store0, RootDescs[k].modelName, RootDescs[k].path, Root.doc)

RefsNow(k) ==
    RefsTo(store, RootDescs[k].modelName, RootDescs[k].path, Root.doc)

\* What C2 promises of a refused call
Refused(k) ==
    /\ Root.pc # "done"
    /\ Settled =>
          /\ Root.pc = "failed"
          /\ Root.err.name = "RefConstraintError"
          /\ Root.doc \in DOMAIN store
          /\ RefsBefore(k) \subseteq RefsNow(k)

\* C2 as stated: if a document references D through a descriptor whose live
\* flags are required and not cascade, deleteOne on D fails with
\* RefConstraintError, D is still in the store and the referencing document
\* still exists and still references D.
C2_BlockRefusesDelete ==
    HardCall =>
        \A k \in 1..Len(RootDescs) :
            (Policy(RootDescs[k]) = "Block" /\ RefsBefore(k) # {})
                => Refused(k)

\* C2 amended: the same, when no descriptor before it in registry order has
\* the live flags required and cascade.
C2_BlockRefusesDeleteUnlessCascadedFirst ==
    HardCall =>
        \A k \in 1..Len(RootDescs) :
            (/\ Policy(RootDescs[k]) = "Block"
             /\ RefsBefore(k) # {}
             /\ \A j \in 1..(k - 1) : Policy(RootDescs[j]) # "Cascade")
                => Refused(k) /\ Root.idx <= k

C2_Witness ==
    /\ HardCall /\ Failed
    /\ \E k \in 1..Len(RootDescs) :
          /\ k > 1
          /\ Policy(RootDescs[k]) = "Block"
          /\ RefsBefore(k) # {}
          /\ \A j \in 1..(k - 1) : Policy(RootDescs[j]) # "Cascade"

\* Document r holds the id of document x at a path of the registry, in st.
References(st, r, x) ==
    \E f \in RegistryFields :
        /\ f.modelName = st[r].model
        /\ f.target = st[x].model
        /\ Matches(st[r].val, f.path, x)

RECURSIVE ReachingFrom(_, _)
\* The documents of st from which a document of S is reached through a
\* chain of references (S included).
ReachingFrom(st, S) ==
    LET S1 == S \cup {r \in DOMAIN st : \E x \in S : References(st, r, x)}
    IN  IF S1 = S THEN S ELSE ReachingFrom(st, S1)

\* What C3 promises of a cascade through descriptor k, but for the
\* documents it leaves.
CascadeRemoves(k) ==
    /\ Root.doc \notin DOMAIN store
    /\ RefsBefore(k) \cap DOMAIN store = {}

\* C3 as stated: with the live flags required and cascade, a successful
\* hard delete of D removes D and every document that held D's id at the
\* descriptor path, and leaves in the store every document of the source
\* model that does not reference D.
C3_CascadeRemovesReferencing ==
    (HardCall /\ Succeeded) =>
        \A k \in 1..Len(RootDescs) :
            Policy(RootDescs[k]) = "Cascade" =>
                /\ CascadeRemoves(k)
                /\ \A r \in DOMAIN store0 :
                      (/\ store0[r].model = RootDescs[k].modelName
                       /\ r # Root.doc
                       /\ r \notin RefsBefore(k))
                          => r \in DOMAIN store

\* C3 amended: it leaves in the store every document from which D is not
\* reached through a chain of references (the cascade is transitive).
C3_CascadeRemovesReferencingChain ==
    (HardCall /\ Succeeded) =>
        \A k \in 1..Len(RootDescs) :
            Policy(RootDescs[k]) = "Cascade" =>
                /\ CascadeRemoves(k)
                /\ \A r \in DOMAIN store0 :
                      r \notin ReachingFrom(store0, {Root.doc})
                          => r \in DOMAIN store

\* A cascade has removed D with a document that referenced it and has left
\* a document of the source model.
C3_Witness ==
    /\ HardCall /\ Succeeded
    /\ \E k \in 1..Len(RootDescs) :
          /\ Policy(RootDescs[k]) = "Cascade"
          /\ RefsBefore(k) \ {Root.doc} # {}
          /\ \E r \in DOMAIN store :
                store[r].model = RootDescs[k].modelName

\* The value at a path that goes through objects only
RECURSIVE ValueAt(_, _)
ValueAt(val, p) == IF p = <<>> THEN val ELSE ValueAt(val.f[Head(p)], Tail(p))

\* Descriptor k of the root's model is a scalar reference field.
ScalarField(k) ==
    LET schema == SchemaOf(app, RootDescs[k].modelName)
    IN  /\ SchemaPath(schema, RootDescs[k].path).ctor = "ObjectId"
        /\ LastDocumentArray(schema, RootDescs[k].path) = 0

\* D is referenced, and only through descriptors whose live flag required
\* is false.
NullifyCase ==
    /\ \E k \in 1..Len(RootDescs) : RefsBefore(k) # {}
    /\ \A k \in 1..Len(RootDescs) :
          RefsBefore(k) # {} => Policy(RootDescs[k]) = "SetNull"

\* C4: when the descriptors through which D is referenced have the live
\* flag required false, a hard delete of D succeeds, D is removed, and every
\* other document that referenced D through a scalar reference field still
\* exists with that field null.
C4_NullifyOnHardDelete ==
    (HardCall /\ NullifyCase) =>
        /\ Root.pc # "failed"
        /\ Settled =>
              /\ Root.doc \notin DOMAIN store
              /\ \A k \in 1..Len(RootDescs) :
                    ScalarField(k) =>
                        \A r \in RefsBefore(k) \ {Root.doc} :
                            /\ r \in DOMAIN store
                            /\ ValueAt(store[r].val, RootDescs[k].path) = V(NULL)

C4_Witness ==
    /\ HardCall /\ NullifyCase /\ Succeeded
    /\ \E k \in 1..Len(RootDescs) :
          ScalarField(k) /\ RefsBefore(k) \ {Root.doc} # {}

RECURSIVE Nullified(_, _)
\* A value with every occurrence of id detached: taken out of an array of
\* scalars, replaced by null elsewhere; nothing else changes.
Nullified(val, id) ==
    IF val.t = "v" THEN (IF val.v = id THEN V(NULL) ELSE val)
    ELSE IF val.t = "o"
    THEN O([n \in DOMAIN val.f |-> Nullified(val.f[n], id)])
    ELSE LET keep == SelectSeq(val.e, LAMBDA x : ~(x.t = "v" /\ x.v = id))
         IN  A([i \in 1..Len(keep) |-> Nullified(keep[i], id)])

\* C5: a Nullify of D changes, in every referencing document, exactly the
\* array elements whose reference is D (taken out of an array of bare
\* references, set to null in an array of objects or in nested arrays);
\* every other element keeps its value and no array of objects changes
\* its length.
C5_ArrayIsolation ==
    (HardCall /\ Succeeded /\ NullifyCase) =>
        \A r \in DOMAIN store0 \ {Root.doc} :
            /\ r \in DOMAIN store
            /\ store[r].val = Nullified(store0[r].val, Root.doc)

\* Some array held both D and another house, at the same level.
C5_Witness ==
    /\ HardCall /\ Succeeded /\ NullifyCase
    /\ app = "NestedArrays"
    /\ \E h \in Houses \ {Root.doc} :
          \E i \in 1..Len(store0[3].val.f.houses.e) :
              LET inner == store0[3].val.f.houses.e[i].f.house
              IN  Matches(inner, <<"houses", "house">>, Root.doc)
                  /\ Matches(inner, <<"houses", "house">>, h)
    /\ store[3].val # store0[3].val

RECURSIVE Holds(_, _)
\* The id occurs somewhere in the value.
Holds(val, id) ==
    IF val.t = "v" THEN val.v = id
    ELSE IF val.t = "o" THEN \E n \in DOMAIN val.f : Holds(val.f[n], id)
    ELSE \E i \in 1..Len(val.e) : Holds(val.e[i], id)

\* The array a document holds at the head of the k-th descriptor's path.
ArrayAt(st, r, k) == st[r].val.f[Head(RootDescs[k].path)]

\* C6: a cascade through an array reference removes every document whose
\* array holds D, whatever else the array holds, and leaves the documents
\* whose array does not hold D as they were.
C6_CascadeThroughArray ==
    (HardCall /\ Succeeded) =>
        \A k \in 1..Len(RootDescs) :
            (Policy(RootDescs[k]) = "Cascade" /\ ~ScalarField(k)) =>
                \A r \in DOMAIN store0 :
                    store0[r].model = RootDescs[k].modelName =>
                        IF Holds(ArrayAt(store0, r, k), Root.doc)
                        THEN r \notin DOMAIN store
                        ELSE r \in DOMAIN store /\ store[r] = store0[r]

\* A removed document whose array also held a house that still exists, and
\* a document that stays.
C6_Witness ==
    /\ HardCall /\ Succeeded
    /\ \E k \in 1..Len(RootDescs) :
          /\ Policy(RootDescs[k]) = "Cascade" /\ ~ScalarField(k)
          /\ \E r \in DOMAIN store0 \ DOMAIN store : \E h \in DOMAIN store :
                /\ store0[r].model = RootDescs[k].modelName
                /\ store[h].model = Root.model
                /\ Holds(ArrayAt(store0, r, k), Root.doc)
                /\ Holds(ArrayAt(store0, r, k), h)
          /\ \E r \in DOMAIN store : store[r].model = RootDescs[k].modelName

SoftCall == tasks # <<>> /\ Root.soft

\* No descriptor before the k-th of D's model is Cascade.
NoCascadeBefore(k) ==
    \A j \in 1..(k - 1) : Policy(RootDescs[j]) # "Cascade"

\* softDelete(true) on D is vetoed: the caller gets a RefConstraintError
\* with D's _deleted back to false, and the documents that referenced D
\* through the k-th descriptor still do and were not soft-deleted.
Vetoed(k) ==
    /\ Failed
    /\ Root.err.name = "RefConstraintError"
    /\ Root.mem = FALSE
    /\ \A r \in RefsBefore(k) :
          /\ r \in RefsNow(k)
          /\ ~store0[r]._deleted => ~store[r]._deleted

\* C7 as stated: softDelete(true) on D with a Block descriptor that has a
\* referencing document is vetoed, with D's flag rolled back and the
\* referencing document neither soft-deleted nor detached.
C7_SoftDeleteVeto ==
    (SoftCall /\ Root.del /\ Settled) =>
        \A k \in 1..Len(RootDescs) :
            (Policy(RootDescs[k]) = "Block" /\ RefsBefore(k) # {}) =>
                Vetoed(k)

\* C7: softDelete(true) on D with a Block descriptor that has a referencing
\* document, and with no Cascade descriptor before it in the registry order
\* of D's model, fails with RefConstraintError, D's _deleted is false when
\* the error reaches the caller, and the referencing document still
\* references D and is not soft-deleted by the call.
C7_SoftDeleteVetoNoCascadeBefore ==
    (SoftCall /\ Root.del /\ Settled) =>
        \A k \in 1..Len(RootDescs) :
            (/\ Policy(RootDescs[k]) = "Block"
             /\ RefsBefore(k) # {}
             /\ NoCascadeBefore(k)) =>
                Vetoed(k)

\* A vetoed soft delete of a live document with a live referencing one.
C7_Witness ==
    /\ SoftCall /\ Root.del /\ Failed
    /\ ~store0[Root.doc]._deleted
    /\ \E k \in 1..Len(RootDescs) :
          /\ Policy(RootDescs[k]) = "Block"
          /\ NoCascadeBefore(k)
          /\ \E r \in RefsBefore(k) : r # Root.doc /\ ~store[r]._deleted

\* C8: a soft delete or a restore of a parent that has run to its end has
\* put the parent and every document referencing it through a Cascade
\* descriptor in the state asked for (soft-deleted, or live again), and at
\* no point of either call has a document left the store.
C8_CascadeReversibility ==
    SoftCall =>
        /\ DOMAIN store = DOMAIN store0
        /\ Succeeded =>
              \A k \in 1..Len(RootDescs) :
                  Policy(RootDescs[k]) = "Cascade" =>
                      /\ store[Root.doc]._deleted = Root.del
                      /\ \A r \in RefsBefore(k) :
                            store[r]._deleted = Root.del

\* A restore that brought a soft-deleted parent and its soft-deleted
\* children back.
C8_Witness ==
    /\ SoftCall /\ ~Root.del /\ Succeeded
    /\ store0[Root.doc]._deleted
    /\ \E k \in 1..Len(RootDescs) :
          /\ Policy(RootDescs[k]) = "Cascade"
          /\ RefsBefore(k) \ {Root.doc} # {}
          /\ \A r \in RefsBefore(k) : store0[r]._deleted /\ ~store[r]._deleted

\* C9: while a softDelete call and its cascades run, and after them, every
\* document of the store is still there with the value it had when the
\* call was made: nothing but _deleted flags differs.
C9_SoftDeleteFrame ==
    SoftCall =>
        /\ DOMAIN store = DOMAIN store0
        /\ gone = {}
        /\ \A d \in DOMAIN store0 :
              /\ store[d].val = store0[d].val
              /\ store[d].model = store0[d].model

\* A soft delete went through a Nullify descriptor that has referencing
\* documents, and flags did change.
C9_Witness ==
    /\ SoftCall /\ Succeeded
    /\ store # store0
    /\ \E k \in 1..Len(RootDescs) :
          Policy(RootDescs[k]) = "SetNull" /\ RefsBefore(k) # {}

\* C10: no restore, asked for by the application or issued by a cascade of
\* a restore, fails with RefConstraintError.
C10_NoBlockOnRestore ==
    \A i \in Tasks :
        (tasks[i].soft /\ ~tasks[i].del) =>
            /\ tasks[i].pc # "failed"
            /\ tasks[i].err.name # "RefConstraintError"

\* A restore has run to its end although a restore it issued through a
\* cascade met a Block descriptor with a referencing document.
C10_Witness ==
    /\ SoftCall /\ ~Root.del /\ Succeeded
    /\ \E i \in Tasks :
          /\ i > 1
          /\ \E k \in 1..Len(refs[tasks[i].model]) :
                LET desc == refs[tasks[i].model][k]
                IN  /\ Policy(desc) = "Block"
                    /\ RefsTo(store, desc.modelName, desc.path, tasks[i].doc) # {}

\* A Room document without the nesting around its reference
Flat(d) ==
    IF d.model = "Room"
    THEN [model |-> "Room", _id |-> d.val.f._id.v,
          house |-> ValueAt(d.val, NestedPath(DepthOf(app)) \o <<"house">>).v]
    ELSE [model |-> d.model, _id |-> d.val.f._id.v, house |-> NULL]

FlatStore(st) == [d \in DOMAIN st |-> Flat(st[d])]

\* What a delete of document D does to the un-nested store under each
\* policy of Room's reference: [ok, store].
FlatOutcome(st, D, policy) ==
    LET rooms == {r \in DOMAIN st : st[r].model = "Room" /\ st[r].house = D}
        less(S) == [d \in DOMAIN st \ S |-> st[d]]
    IN  IF st[D].model = "Room" THEN [ok |-> TRUE, store |-> less({D})]
        ELSE CASE policy = "Block" ->
                    IF rooms # {} THEN [ok |-> FALSE, store |-> st]
                    ELSE [ok |-> TRUE, store |-> less({D})]
               [] policy = "Cascade" ->
                    [ok |-> TRUE, store |-> less(rooms \cup {D})]
               [] policy = "SetNull" ->
                    [ok |-> TRUE,
                     store |-> [d \in DOMAIN st \ {D} |->
                                  IF d \in rooms
                                  THEN [st[d] EXCEPT !.house = NULL]
                                  ELSE st[d]]]

\* C11: whatever the number of levels of object nesting around the
\* reference, a delete has, on the documents taken without the nesting, the
\* outcome it has with no nesting at all (refused or not, which documents
\* are left, which references are null), for Block, Cascade and Nullify;
\* the registered path is the reference's name after one 'nested' per level.
C11_DepthIndependence ==
    /\ Len(refs["House"]) = 1
    /\ refs["House"][1].modelName = "Room"
    /\ refs["House"][1].path = NestedPath(DepthOf(app)) \o <<"house">>
    /\ (HardCall /\ Settled) =>
          LET out == FlatOutcome(FlatStore(store0), Root.doc,
                                 Policy(refs["House"][1]))
          IN  /\ Succeeded = out.ok
              /\ FlatStore(store) = out.store

\* A reference under the most levels of nesting was set to null while the
\* other room kept its own.
C11_Witness ==
    /\ HardCall /\ Succeeded
    /\ DepthOf(app) = MaxDepth
    /\ Policy(refs["House"][1]) = "SetNull"
    /\ \E r \in DOMAIN store : \E q \in DOMAIN store :
          /\ Flat(store0[r]).house = Root.doc /\ Flat(store[r]).house = NULL
          /\ Flat(store[q]).house \notin {NULL, Root.doc}

\* The (sourceModel, path) pairs of a list of descriptors
Pairs(descs) ==
    {[modelName |-> descs[k].modelName, path |-> descs[k].path] :
        k \in 1..Len(descs)}

\* No (sourceModel, path) pair occurs twice in a list of descriptors.
NoDuplicate(descs) ==
    \A j \in 1..Len(descs) : \A k \in 1..Len(descs) :
        (/\ descs[j].modelName = descs[k].modelName
         /\ descs[j].path = descs[k].path) => j = k

LastCall == calls[Len(calls)]

\* C12: a plugin() call for the model the previous call was for leaves,
\* under every key, the descriptor set the previous call left, with no
\* (sourceModel, path) pair more than once.
C12_PluginIdempotent ==
    [][(/\ calls # <<>>
        /\ calls' = Append(calls, LastCall))
       => /\ DOMAIN refs' = DOMAIN refs
          /\ \A key \in DOMAIN refs :
                /\ Pairs(refs'[key]) = Pairs(refs[key])
                /\ NoDuplicate(refs'[key])]_vars

\* The schema of the model plugin() was last called for
LastSchema ==
    SchemaOf(app, LastCall)

\* C17: when plugin(modelName, schema) has returned, every reference field
\* of the schema has, under its target model, a descriptor with the model's
\* name and the field's path.
C17_PluginComplete ==
    calls # <<>> =>
        LET fields == RefFields(LastCall, <<>>, LastSchema)
        IN  \A n \in 1..Len(fields) :
                /\ fields[n].target \in DOMAIN refs
                /\ [modelName |-> LastCall, path |-> fields[n].path]
                       \in Pairs(refs[fields[n].target])

\* C18: no plugin() call takes a descriptor out of the registry: under
\* every key the descriptors after the call include those before it.
C18_RegistryMonotone ==
    [][\A key \in DOMAIN refs :
          /\ key \in DOMAIN refs'
          /\ Pairs(refs[key]) \subseteq Pairs(refs'[key])]_vars

\* The policy function the live flags of a descriptor ask for.
Handler(desc) ==
    LET f == flags[<<desc.modelName, desc.path>>]
    IN  IF ~f.required THEN "onDeleteSetNull"
        ELSE IF f.cascade \/ desc.optCascade THEN "onDeleteCascade"
        ELSE "onDeleteBlock"

\* The descriptors a call of onDelete has visited so far.
Visited(t) == IF t.pc \in {"await", "failed"} THEN t.idx ELSE t.idx - 1

\* C19: for every descriptor an onDelete call has visited, one policy
\* function has been called, and it is onDeleteSetNull when required is
\* false (whatever cascade is), onDeleteCascade when required and cascade
\* are true, onDeleteBlock when required is true and cascade is not.
C19_PolicyTotalExclusive ==
    \A i \in Tasks :
        /\ Len(tasks[i].called) = Visited(tasks[i])
        /\ \A j \in 1..Len(tasks[i].called) :
              tasks[i].called[j] = Handler(refs[tasks[i].model][j])

\* A call went through a descriptor with required false and cascade true
\* and one with required true.
C19_Witness ==
    /\ HardCall /\ Succeeded
    /\ \E j \in 1..Len(RootDescs) : \E k \in 1..Len(RootDescs) :
          /\ ~flags[<<RootDescs[j].modelName, RootDescs[j].path>>].required
          /\ flags[<<RootDescs[j].modelName, RootDescs[j].path>>].cascade
          /\ Root.called[j] = "onDeleteSetNull"
          /\ flags[<<RootDescs[k].modelName, RootDescs[k].path>>].required
          /\ RefsBefore(j) # {}

\* A call of onDelete is about to evaluate a descriptor, or to return:
\* every call it has issued for the descriptors before has fulfilled.
Resolved(i) ==
    tasks[i].pc \in {"hook", "commit", "done"} =>
        /\ tasks[i].batch = {}
        /\ \A c \in Tasks : tasks[c].parent = i => tasks[c].pc = "done"

\* The root was refused by the Block check of its own k-th descriptor.
RefusedAt(k) ==
    /\ Failed
    /\ Root.idx = k
    /\ Root.called[k] = "onDeleteBlock"

\* C20: a call of onDelete evaluates the descriptors of its model one at a
\* time in registry order, each after the one before has resolved, and once
\* a descriptor has raised RefConstraintError the call does nothing more:
\* the documents referencing D through later descriptors are as they were.
C20_DescriptorOrdering ==
    /\ [](\A i \in Tasks : Resolved(i))
    /\ [](tasks # <<>> =>
             \A j \in 1..Len(RootDescs) :
                 (RefusedAt(Root.idx) /\ NoCascadeBefore(Root.idx)
                  /\ j > Root.idx) => RefsBefore(j) \subseteq RefsNow(j))
    /\ [][\A i \in Tasks :
             /\ tasks' # <<>> =>
                   /\ tasks'[i].idx \in {tasks[i].idx, tasks[i].idx + 1}
                   /\ \A j \in 1..Len(tasks[i].called) :
                         /\ j <= Len(tasks'[i].called)
                         /\ tasks'[i].called[j] = tasks[i].called[j]
             /\ tasks[i].err # NoErr =>
                   tasks' = <<>> \/ tasks'[i] = tasks[i]]_vars

\* A call refused at its first descriptor, with documents referencing D
\* through the second.
C20_Witness ==
    /\ HardCall /\ RefusedAt(1)
    /\ Len(RootDescs) >= 2
    /\ RefsBefore(2) # {}
    /\ Len(Root.called) = 1

\* The first descriptor of D's model through which D was referenced when
\* the call was made is the k-th.
FirstReferenced(k) ==
    /\ RefsBefore(k) # {}
    /\ \A j \in 1..(k - 1) : RefsBefore(j) = {}

\* C13: a delete call acts by the required and cascade flags as they are
\* when it runs, whatever they were at registration or at an earlier call:
\* at the first descriptor that has referencing documents it is refused
\* with the store untouched (Block), detaches the references and leaves
\* their documents (Nullify), or removes the referencing documents
\* (Cascade).
C13_LivePolicy ==
    (HardCall /\ Settled) =>
        \A k \in 1..Len(RootDescs) :
            FirstReferenced(k) =>
                LET h == Handler(RootDescs[k])
                IN  /\ h = "onDeleteBlock" => Failed /\ store = store0
                    /\ h = "onDeleteSetNull" =>
                          /\ RefsNow(k) = {}
                          /\ RefsBefore(k) \ {Root.doc} \subseteq DOMAIN store
                    /\ (h = "onDeleteCascade" /\ Succeeded) =>
                          RefsBefore(k) \cap DOMAIN store = {}

\* The delete of D was refused, the flags were changed, and the next delete
\* of D has set the references to null.
C13_Witness ==
    /\ HardCall /\ Succeeded
    /\ prev = [doc |-> Root.doc, ok |-> FALSE]
    /\ \E k \in 1..Len(RootDescs) :
          /\ FirstReferenced(k)
          /\ Handler(RootDescs[k]) = "onDeleteSetNull"
          /\ RefsBefore(k) \ {Root.doc} # {}

\* The k-th descriptor of D's model, evaluated before the refusal, has
\* changed nothing: it is a Block, or nothing referenced D through it.
NoEffect(k) ==
    Handler(RootDescs[k]) = "onDeleteBlock" \/ RefsBefore(k) = {}

C15_ErrorNamesBlocker ==
    [][\A i \in Tasks :
          (tasks[i].pc = "hook" /\ tasks' # <<>> /\ tasks'[i].pc = "failed") =>
              LET e    == tasks'[i].err
                  desc == refs[tasks[i].model][tasks[i].idx]
              IN  /\ e.name = "RefConstraintError"
                  /\ e.modelName = tasks[i].model
                  /\ e.modelRef = desc.modelName
                  /\ e.pathRef = desc.path
                  /\ Handler(desc) = "onDeleteBlock"
                  /\ e.whoIsBlocking \in DOMAIN store
                  /\ store[e.whoIsBlocking].model = desc.modelName
                  /\ Holds(store[e.whoIsBlocking].val.f[Head(desc.path)],
                           tasks[i].doc)]_vars

\* A refusal that names one of two referencing documents.
C15_Witness ==
    /\ HardCall /\ RefusedAt(Root.idx)
    /\ Cardinality(RefsBefore(Root.idx)) >= 2
    /\ Root.err.whoIsBlocking \in RefsBefore(Root.idx)
    /\ Root.err.whoIsBlocking # Root.doc

\* What the claim says of the document of a call on the way of the error:
\* not deleted, or with _deleted back to false.
Unwound(t) ==
    IF t.soft THEN t.mem = FALSE ELSE t.doc \in DOMAIN store

RECURSIVE ErrorChain(_)
\* Call i has failed with an error raised by its own Block check, or handed
\* on as it is by a call of its batch of which the same holds; and every
\* document on the way is unwound.
ErrorChain(i) ==
    /\ tasks[i].pc = "failed"
    /\ tasks[i].err.name = "RefConstraintError"
    /\ Unwound(tasks[i])
    /\ IF tasks[i].called[tasks[i].idx] = "onDeleteBlock"
       THEN tasks[i].err.modelName = tasks[i].model
       ELSE \E c \in tasks[i].batch :
               tasks[c].err = tasks[i].err /\ ErrorChain(c)

\* The calls from i down to the one whose Block check raised the error
RECURSIVE ChainLength(_)
ChainLength(i) ==
    IF tasks[i].called[tasks[i].idx] = "onDeleteBlock" THEN 1
    ELSE LET cs == {c \in tasks[i].batch : tasks[c].err = tasks[i].err}
         IN  IF cs = {} THEN 1 ELSE 1 + ChainLength(CHOOSE c \in cs : TRUE)

\* C16: when a delete or a soft delete fails, the error the caller gets is
\* the RefConstraintError a Block check raised, at whatever depth of the
\* cascade, handed up unchanged; the top-level document and every document
\* on the cascade chain down to the refused one is still in the store (hard
\* delete) or has its _deleted flag back to false (soft delete).
C16_ErrorReachesCaller ==
    Failed => ErrorChain(1)

\* A hard delete refused two cascades below the top-level document.
C16_Witness ==
    /\ HardCall /\ Failed
    /\ ChainLength(1) = 3
    /\ Root.err.whoIsBlocking \in DOMAIN store

\* A soft delete refused two cascades below the top-level document.
C16_WitnessSoft ==
    /\ SoftCall /\ Root.del /\ Failed
    /\ ChainLength(1) = 3


\* C21: when a hard delete of D has failed, D is in the store and every
\* document that referenced D through a descriptor the call had cascaded
\* before the failure is out of the store; and no document that has left
\* the store comes back.
C21_PartialCascadeStays ==
    /\ []((HardCall /\ Failed) =>
             /\ Root.doc \in DOMAIN store
             /\ \A j \in 1..(Root.idx - 1) :
                   Root.called[j] = "onDeleteCascade" =>
                       RefsBefore(j) \cap DOMAIN store = {})
    /\ [][DOMAIN store' \subseteq DOMAIN store]_vars

\* The first descriptor's cascade has deleted a referencing document and
\* the Block check of the second has refused the delete.
C21_Witness ==
    /\ HardCall /\ RefusedAt(2)
    /\ Root.called[1] = "onDeleteCascade"
    /\ RefsBefore(1) \ {Root.doc} # {}
    /\ RefsBefore(1) \cap DOMAIN store = {}
    /\ Root.doc \in DOMAIN store

\* The document holds the id x, of a document of model xmodel, at the path
\* of a descriptor of xmodel whose live flags ask for the policy function h.
HeldBy(document, x, xmodel, h) ==
    \E k \in 1..Len(refs[xmodel]) :
        LET desc == refs[xmodel][k]
        IN  /\ Handler(desc) = h
            /\ document.model = desc.modelName
            /\ Matches(document.val, desc.path, x)

\* Document r of st references document x of st in that way.
ReferencesBy(st, r, x, h) == HeldBy(st[r], x, st[x].model, h)

RECURSIVE CascadeReach(_, _)
\* The documents of st from which a document of S is reached through a
\* chain of Cascade references (S included).
CascadeReach(st, S) ==
    LET S1 == S \cup {r \in DOMAIN st :
                         \E x \in S : ReferencesBy(st, r, x, "onDeleteCascade")}
    IN  IF S1 = S THEN S ELSE CascadeReach(st, S1)

\* The documents the call has removed so far
Removed == DOMAIN store0 \ DOMAIN store

\* The length of the longest chain of Cascade references from r to D
RECURSIVE CascadeDepth(_, _)
CascadeDepth(st, S) ==
    LET S1 == S \cup {r \in DOMAIN st :
                         \E x \in S : ReferencesBy(st, r, x, "onDeleteCascade")}
    IN  IF S1 = S THEN 0 ELSE 1 + CascadeDepth(st, S1)

\* C22: a successful hard delete of D has removed every document from which
\* D was reached through a chain of Cascade references, each removed by a
\* call of its own that went through every descriptor of its model, and no
\* document of the store holds the id of a removed document at the path of
\* a Nullify descriptor.
C22_TransitiveCascade ==
    (HardCall /\ Succeeded) =>
        /\ CascadeReach(store0, {Root.doc}) \cap DOMAIN store = {}
        /\ \A x \in Removed :
              /\ \E i \in Tasks :
                    /\ tasks[i].doc = x
                    /\ tasks[i].pc = "done"
                    /\ Len(tasks[i].called) = Len(refs[tasks[i].model])
              /\ \A r \in DOMAIN store :
                    ~HeldBy(store[r], x, store0[x].model, "onDeleteSetNull")

\* A chain of three Cascade references has been removed with D.
C22_Witness ==
    /\ HardCall /\ Succeeded
    /\ CascadeDepth(store0, {Root.doc}) = 3
    /\ Cardinality(Removed) = 4

\* The effect of call c is in the store: its document is removed, or saved
\* with the _deleted it was given.
Completed(c) ==
    /\ tasks[c].pc = "done"
    /\ IF tasks[c].soft
       THEN store[tasks[c].doc]._deleted = tasks[c].del
       ELSE tasks[c].doc \notin DOMAIN store

\* C23: when a call of onDelete is at a descriptor, past the last one or
\* returned, every call it has issued has completed; and while it awaits a
\* batch or after it has failed, every call of the batches before has.
C23_BatchCompletion ==
    \A i \in Tasks : \A c \in Tasks :
        (/\ tasks[c].parent = i
         /\ \/ tasks[i].pc \in {"hook", "commit", "done"}
            \/ c \notin tasks[i].batch) => Completed(c)

\* A call about to commit whose batch of two has completed, one of the two
\* after a cascade of its own.
C23_Witness ==
    /\ HardCall /\ Root.pc = "commit"
    /\ Root.doc \in DOMAIN store
    /\ Cardinality({c \in Tasks : tasks[c].parent = 1}) = 2
    /\ \E c \in Tasks : tasks[c].parent > 1

\* C24: once the call of the application has failed, no step made on its
\* behalf changes the store.
C24_QuiescenceAfterFailure ==
    [][Failed => store' = store]_vars


RECURSIVE OnCycle(_, _, _)
\* Document d of st is reached from itself through n Cascade references or
\* fewer, S being the documents that reach d so far.
OnCycle(st, d, S) ==
    LET S1 == S \cup {r \in DOMAIN st :
                         \E x \in S \cup {d} :
                             ReferencesBy(st, r, x, "onDeleteCascade")}
    IN  IF d \in S1 THEN TRUE
        ELSE IF S1 = S THEN FALSE ELSE OnCycle(st, d, S1)

\* No document is on a cycle of Cascade references.
NoCascadeCycle(st) == \A d \in DOMAIN st : ~OnCycle(st, d, {})

\* C25: every delete or soft-delete call the application makes eventually
\* completes or fails.
C25_Termination == (tasks # <<>>) ~> Settled

\* The same for the calls made when no document is on a cycle of Cascade
\* references.
C25_TerminationWithoutCycle ==
    (tasks # <<>> /\ NoCascadeCycle(store0)) ~> Settled


\* The names of the segments of a shape, and those that are arrays of
\* objects.
SegNames(kinds) == [i \in 1..Len(kinds) |-> SegName(kinds[i], i)]

ArraySegs(kinds) == {i \in 1..Len(kinds) : kinds[i] = "array"}

\* The array segment closest to the reference field
TerminalArray(kinds) ==
    CHOOSE i \in ArraySegs(kinds) : \A k \in ArraySegs(kinds) : k <= i

RECURSIVE Marked(_, _)
\* The segments from the i-th on, '$[j]' after the terminal array, '$[]'
\* after any other array, then the reference field.
Marked(kinds, i) ==
    IF i > Len(kinds) THEN <<"ref">>
    ELSE <<SegName(kinds[i], i)>>
         \o (IF kinds[i] = "array"
             THEN IF i = TerminalArray(kinds) THEN <<"$[j]">> ELSE <<"$[]">>
             ELSE <<>>)
         \o Marked(kinds, i + 1)

Built == built.update # NoUpdate

\* C26: the update getUpdateQueryObjectFor builds for a reference path has
\* '$[j]' after the last segment that is an array of objects, '$[]' after
\* every earlier one and nothing after the other segments, with the one
\* array filter 'j.' + the segments after the last array = referenced id;
\* with no array of objects on the path it has no array filter and its
\* path is the reference path.
C26_MutationPathShape ==
    Built =>
        LET kinds   == built.kinds
            pathRef == SegNames(kinds) \o <<"ref">>
            u       == built.update
        IN  /\ refs["House"][1].path = pathRef
            /\ u.path = Marked(kinds, 1)
            /\ IF ArraySegs(kinds) = {}
               THEN u.arrayFilters = <<>> /\ u.path = pathRef
               ELSE u.arrayFilters =
                      <<[key   |-> <<"j">> \o SubSeq(pathRef,
                                                     TerminalArray(kinds) + 1,
                                                     Len(pathRef)),
                         value |-> built.referencedId]>>

\* An update through two arrays of objects with another segment after the
\* second.
C26_Witness ==
    /\ Built
    /\ Cardinality(ArraySegs(built.kinds)) = 2
    /\ TerminalArray(built.kinds) = 2
    /\ built.update.path = <<"a1", "$[]", "a2", "$[j]", "s3", "ref">>
    /\ built.update.arrayFilters[1].key = <<"j", "s3", "ref">>

\* C27: the update getUpdateQueryObjectFor builds has one operator: $pull
\* with the referenced id when the reference field is an array of bare
\* references, $set with null otherwise.
C27_MutationOperator ==
    Built =>
        /\ built.update.op \in {"$pull", "$set"}
        /\ built.update.op = "$pull" <=> built.terminal = "SchemaArray"
        /\ built.update.value =
              IF built.terminal = "SchemaArray"
              THEN built.referencedId ELSE NULL

\* A $pull for an array of bare references and the second house
C27_Witness ==
    /\ Built
    /\ built.kinds = <<>>
    /\ built.update = [op |-> "$pull", path |-> <<"ref">>, value |-> 2,
                       arrayFilters |-> <<>>]


RECURSIVE Occurrences(_, _)
\* How many times the id occurs in the value
Occurrences(val, id) ==
    IF val.t = "v" THEN (IF val.v = id THEN 1 ELSE 0)
    ELSE IF val.t = "o"
    THEN LET names == DOMAIN val.f
             sum[S \in SUBSET names] ==
                 IF S = {} THEN 0
                 ELSE LET n == CHOOSE x \in S : TRUE
                      IN  Occurrences(val.f[n], id) + sum[S \ {n}]
         IN  sum[names]
    ELSE LET sum[k \in 0..Len(val.e)] ==
                 IF k = 0 THEN 0
                 ELSE Occurrences(val.e[k], id) + sum[k - 1]
         IN  sum[Len(val.e)]

\* Call i is at a Nullify descriptor of a hard delete and takes its step.
Nullifies(i) ==
    /\ tasks[i].pc = "hook"
    /\ ~tasks[i].soft
    /\ Handler(DescOf(tasks[i])) = "onDeleteSetNull"
    /\ Len(tasks'[i].called) = Len(tasks[i].called) + 1

\* C28: right after onDeleteSetNull has applied its update for a descriptor
\* and an id, no document of the source model matches the selector
\* { path: id } any more.
C28_NullifyPostcondition ==
    [][\A i \in Tasks :
          Nullifies(i) =>
              LET desc == DescOf(tasks[i])
              IN  RefsTo(store', desc.modelName, desc.path, tasks[i].doc)
                  = {}]_vars

\* A Nullify on nested arrays has detached a house that one room held three
\* times or more, in more than one inner array.
C28_Witness ==
    /\ HardCall /\ Root.called = <<"onDeleteSetNull">>
    /\ app = "NestedArrays"
    /\ Occurrences(store0[3].val, Root.doc) >= 3
    /\ Occurrences(store[3].val, Root.doc) = 0
    /\ RefsNow(1) = {}


\* C29: a restore of a parent that has run to its end has called
\* softDelete(false) on every document that referenced the parent through a
\* Cascade descriptor, and each of them is live, whether or not it was
\* soft-deleted before the parent was.
C29_RestoreForgetsChildState ==
    (SoftCall /\ ~Root.del /\ Succeeded) =>
        \A k \in 1..Len(RootDescs) :
            Handler(RootDescs[k]) = "onDeleteCascade" =>
                \A r \in RefsBefore(k) :
                    /\ ~store[r]._deleted
                    /\ \E i \in Tasks :
                          /\ tasks[i].parent = 1
                          /\ tasks[i].doc = r
                          /\ tasks[i].soft /\ ~tasks[i].del

\* softDelete(true) then softDelete(false) on a parent that was live, with
\* a Cascade child that was soft-deleted before the two calls and is live
\* after them.
C29_Witness ==
    /\ SoftCall /\ ~Root.del /\ Succeeded
    /\ prev.doc = Root.doc /\ prev.del /\ prev.ok
    /\ Root.doc \notin prev.deleted
    /\ \E k \in 1..Len(RootDescs) :
          /\ Handler(RootDescs[k]) = "onDeleteCascade"
          /\ \E r \in RefsBefore(k) \cap prev.deleted :
                r # Root.doc /\ ~store[r]._deleted


\* The error of the failed call i is the one a call of its batch failed
\* with, or, with no such call, one it has thrown itself.
HandedOn(i) ==
    \/ /\ \A c \in tasks[i].batch : tasks[c].pc # "failed"
       /\ tasks[i].err.modelName = tasks[i].model
    \/ \E c \in tasks[i].batch :
          tasks[c].pc = "failed" /\ tasks[c].err = tasks[i].err

\* C30: when the soft-delete hook of a document has failed with an error of
\* the store, the error is the one thrown below, as it was, and the
\* document's _deleted is the value softDelete was called with; _deleted
\* differs from that value only after a RefConstraintError, and is then
\* false.
C30_RollbackOnlyOnRefConstraint ==
    \A i \in Tasks :
        (tasks[i].soft /\ tasks[i].pc = "failed") =>
            /\ tasks[i].err.name \in {"StoreOperationError", "RefConstraintError"}
            /\ HandedOn(i)
            /\ tasks[i].err.name = "StoreOperationError" =>
                  tasks[i].mem = tasks[i].del
            /\ tasks[i].mem # tasks[i].del =>
                  /\ tasks[i].err.name = "RefConstraintError"
                  /\ tasks[i].mem = FALSE

\* softDelete(true) on a house has failed with the error a store operation
\* threw in the hook of a room it cascaded to: the house's _deleted is
\* still true, and nothing was saved.
C30_Witness ==
    /\ SoftCall /\ Root.del /\ Failed
    /\ Root.model = "House"
    /\ Root.err.name = "StoreOperationError"
    /\ Root.err.modelName = "Room"
    /\ Root.mem = TRUE
    /\ ~store[Root.doc]._deleted


\* The models whose schemas declare a reference to model m.
SourcesOf(m) ==
    {n \in ModelNames(app) :
        \E k \in 1..Len(RefFields(n, <<>>, SchemaOf(app, n))) :
            RefFields(n, <<>>, SchemaOf(app, n))[k].target = m}

RECURSIVE SourcesClosure(_)
\* The models of S and those that reference them, directly or not.
SourcesClosure(S) ==
    LET T == S \cup UNION {SourcesOf(m) : m \in S}
    IN  IF T = S THEN S ELSE SourcesClosure(T)

\* The documents the call of the application has removed or changed so far.
Touched == {d \in DOMAIN store0 : d \notin DOMAIN store \/ store[d] # store0[d]}

\* The documents the call of the application was made to delete: the
\* document itself, or those of the collection that matched the conditions.
Aimed ==
    IF IsQuery(Root)
    THEN {d \in DOMAIN store0 :
            /\ store0[d].model = Root.model
            /\ \A k \in DOMAIN Root.conditions :
                  IF k = "_id" THEN d = Root.conditions[k]
                  ELSE Holds(ValueAt(store0[d].val, <<k>>), Root.conditions[k])}
    ELSE {Root.doc}

NoIdQuery(t) == IsQuery(t) /\ "_id" \notin DOMAIN t.conditions

\* C31: a call whose hook has called a policy function had an _id to read,
\* from the document or from the conditions of the query, and evaluates
\* with that _id; a deleteOne whose conditions carry no _id calls no policy
\* function, issues no call, and leaves the store as it was but for one
\* matching document at most, which it removes; and in every call the policy
\* functions called are those of the descriptors registered under the name
\* of the model the call deletes from, the calls it issues are on documents
\* of models that reference that model, and nothing outside the aimed
\* documents and the models that reference the model is touched.
C31_HookReadsId ==
    tasks # <<>> =>
        /\ \A i \in Tasks :
              LET t == tasks[i]
              IN  /\ t.called # <<>> =>
                        /\ ~NoIdQuery(t)
                        /\ IsQuery(t) => t.doc = t.conditions["_id"]
                        /\ t.doc \in DOMAIN store0
                        /\ store0[t.doc].model = t.model
                  /\ NoIdQuery(t) =>
                        /\ t.called = <<>>
                        /\ Len(tasks) = 1
                        /\ Touched \subseteq Aimed
                        /\ Cardinality(Touched) <= 1
                        /\ Touched \cap DOMAIN store = {}
                        /\ (t.pc = "done" /\ Aimed # {}) => Touched # {}
                  /\ Len(t.called) <= Len(refs[t.model])
                  /\ \A j \in 1..Len(t.called) :
                        t.called[j] = Handler(refs[t.model][j])
                  /\ \A c \in Tasks :
                        tasks[c].parent = i =>
                            tasks[c].model \in SourcesOf(t.model)
        /\ \A d \in Touched \ Aimed :
              store0[d].model \in SourcesClosure(SourcesOf(Root.model))
        /\ Cardinality(Touched \cap Aimed) <= 1

\* Model.deleteOne with conditions that carry no _id has removed a document
\* that another still references through a field whose flags ask for Block.
C31_Witness ==
    /\ tasks # <<>>
    /\ NoIdQuery(Root)
    /\ Root.pc = "done"
    /\ \E v \in Touched : \E j \in 1..Len(RootDescs) :
          /\ Handler(RootDescs[j]) = "onDeleteBlock"
          /\ RefsTo(store, RootDescs[j].modelName, RootDescs[j].path, v) # {}

\* Model.deleteOne with an _id in its conditions has gone through onDelete:
\* a document that referenced the _id has been removed by the cascade.
C31_WitnessWithId ==
    /\ tasks # <<>>
    /\ IsQuery(Root)
    /\ "_id" \in DOMAIN Root.conditions
    /\ Root.pc = "done"
    /\ Root.called # <<>>
    /\ Touched \ Aimed # {}

====
